---- MODULE Spec2Model ----
(***************************************************************************)
(* ComplianceShield (beepboop-dev/gamma-project): the rule evaluator and   *)
(* scorer (scanHTML), the monitor registry (/api/monitor, /api/alerts) and *)
(* the background scheduler (runScheduledScans) of the Express server.     *)
(*                                                                         *)
(* Time is counted in days: Date.now() is the variable clock, and the      *)
(* millisecond durations of the source are divided by 24*60*60*1000.       *)
(***************************************************************************)
EXTENDS Integers, Sequences, FiniteSets, TLC

VARIABLES html, edits, result,
          build, clock, nextId, monitors, scanHistory, ticks, scanReq, resp,
          fetch, reply

scanVars == <<html, edits, result>>
srvVars  == <<build, clock, nextId, monitors, scanHistory, ticks, scanReq, resp>>
ioVars   == <<fetch, reply>>
vars     == <<html, edits, result,
              build, clock, nextId, monitors, scanHistory, ticks, scanReq, resp,
              fetch, reply>>

(***************************************************************************)
(* Bounds of the model.                                                    *)
(***************************************************************************)
MaxEdits    == 3   \* elements added to a base document before it is scanned
MaxClock    == 1   \* days the clock may advance
MaxMonitors == 2   \* records in the monitor list
MaxHistory  == 2   \* records appended to the scan store
MaxChunks   == 2   \* data events of one response
MaxDigits   == 9   \* hex digits of a colour expression

\* null / undefined of a string-valued field, and of a number-valued one
null == "null"
none == -1

Min(a, b) == IF a < b THEN a ELSE b

\* [1, ..., n]: the excerpts of n violating elements, in document order
Excerpts(n) == [i \in 1..n |-> i]

(***************************************************************************)
(* WCAG_RULES: the impact of each rule of the catalogue.                   *)
(***************************************************************************)
WCAG_RULES ==
  [r \in {"missing-alt", "empty-alt", "missing-lang", "missing-title",
          "missing-heading", "skipped-heading", "missing-form-label",
          "empty-link", "empty-button", "missing-viewport", "no-skip-link",
          "missing-landmark", "low-contrast-text", "autoplay-media",
          "tabindex-positive", "missing-table-header", "meta-refresh",
          "inline-styles-text", "color-contrast-inline", "keyboard-trap",
          "missing-focus-style", "generic-link-text",
          "missing-keyboard-access"} |->
     CASE r \in {"missing-alt", "missing-form-label", "empty-button",
                 "meta-refresh", "keyboard-trap"} -> "critical"
       [] r \in {"empty-alt", "missing-lang", "missing-title", "empty-link",
                 "low-contrast-text", "autoplay-media", "missing-table-header",
                 "color-contrast-inline", "missing-focus-style",
                 "missing-keyboard-access"} -> "serious"
       [] r \in {"inline-styles-text"} -> "minor"
       [] OTHER -> "moderate"]

(***************************************************************************)
(* The parsed document, as the facts the selectors of scanHTML read.       *)
(***************************************************************************)
EmptyDoc ==
  [imgsNoAlt |-> 0, imgsEmptyAlt |-> 0, lang |-> FALSE, title |-> FALSE,
   headings |-> <<>>, unlabeled |-> 0, emptyLinks |-> 0, emptyBtns |-> 0,
   viewport |-> FALSE, hasSkipLink |-> FALSE, roleNavigation |-> 0,
   landmarkTags |-> {}, autoplayMedia |-> 0, posTab |-> 0,
   dataTables |-> 0, tablesNoHeader |-> 0, metaRefresh |-> 0,
   inlineColorCount |-> 0, contrastIssues |-> 0, trapElements |-> 0,
   focusSuppressed |-> 0, genericLinks |-> 0, noKeyboard |-> 0]

\* a page with lang, title, one h1, a viewport meta and a <main>
CleanDoc ==
  [EmptyDoc EXCEPT !.lang = TRUE, !.title = TRUE, !.headings = <<1>>,
                   !.viewport = TRUE, !.landmarkTags = {"main"}]

CountFields == {"imgsNoAlt", "imgsEmptyAlt", "unlabeled", "emptyLinks",
                "emptyBtns", "roleNavigation", "autoplayMedia", "posTab",
                "metaRefresh", "inlineColorCount", "trapElements",
                "focusSuppressed", "genericLinks", "noKeyboard"}
FlagFields == {"lang", "title", "viewport", "hasSkipLink"}
LandmarkKinds == {"main", "nav", "header", "footer"}
HeadingLevels == 1..6

(***************************************************************************)
(* scanHTML                                                                *)
(***************************************************************************)
addIssue(ruleId, elements) ==
  [id |-> ruleId, impact |-> WCAG_RULES[ruleId],
   elements |-> SubSeq(elements, 1, Min(5, Len(elements))),
   count |-> Len(elements)]

addWarning(ruleId) == [id |-> ruleId, impact |-> WCAG_RULES[ruleId]]

addPass(ruleId) == [id |-> ruleId]

Found(i, w, p) == [issues |-> i, warnings |-> w, passes |-> p]

\* if (list.length > 0) addIssue(rule, list); else addPass(rule);
IssueOrPass(ruleId, elements) ==
  IF Len(elements) > 0 THEN Found(<<addIssue(ruleId, elements)>>, <<>>, <<>>)
  ELSE Found(<<>>, <<>>, <<addPass(ruleId)>>)

\* 1. Images without alt
CheckImages(d) ==
  LET r == IssueOrPass("missing-alt", Excerpts(d.imgsNoAlt))
  IN  [r EXCEPT !.warnings =
         IF d.imgsEmptyAlt > 3 THEN <<addWarning("empty-alt")>> ELSE <<>>]

\* 2. Language
CheckLang(d) == IssueOrPass("missing-lang", IF d.lang THEN <<>> ELSE <<1>>)

\* 3. Title
CheckTitle(d) == IssueOrPass("missing-title", IF d.title THEN <<>> ELSE <<1>>)

\* 4. Headings
CheckHeadings(d) ==
  IssueOrPass("missing-heading", IF Len(d.headings) = 0 THEN <<1>> ELSE <<>>)

\* a level equal to the one before plus one counted as a skip
RECURSIVE skippedFrom_orNext(_, _)
skippedFrom_orNext(h, i) ==
  IF i > Len(h) THEN <<>>
  ELSE (IF h[i] >= h[i-1] + 1 THEN <<i>> ELSE <<>>)
         \o skippedFrom_orNext(h, i + 1)

\* 5. Skipped heading levels: the indices i with h[i].level > h[i-1].level + 1
RECURSIVE skippedFrom(_, _)
skippedFrom(h, i) ==
  IF i > Len(h) THEN <<>>
  ELSE (IF h[i] > h[i-1] + 1 THEN <<i>> ELSE <<>>) \o skippedFrom(h, i + 1)

\* the pass recorded without its else
CheckSkipped_noElse(d) ==
  LET skipped == skippedFrom(d.headings, 2)
  IN  Found(IF Len(skipped) > 0
            THEN <<addIssue("skipped-heading", skipped)>> ELSE <<>>,
            <<>>,
            IF Len(d.headings) > 0
            THEN <<addPass("skipped-heading")>> ELSE <<>>)


CheckSkipped(d) ==
  LET skipped == skippedFrom(d.headings, 2)
  IN  IF Len(skipped) > 0
      THEN Found(<<addIssue("skipped-heading", skipped)>>, <<>>, <<>>)
      ELSE IF Len(d.headings) > 0
           THEN Found(<<>>, <<>>, <<addPass("skipped-heading")>>)
           ELSE Found(<<>>, <<>>, <<>>)

\* 6. Form labels
CheckFormLabels(d) == IssueOrPass("missing-form-label", Excerpts(d.unlabeled))

\* 7. Empty links
CheckEmptyLinks(d) == IssueOrPass("empty-link", Excerpts(d.emptyLinks))

\* 8. Empty buttons
CheckEmptyButtons(d) == IssueOrPass("empty-button", Excerpts(d.emptyBtns))

\* 9. Viewport
CheckViewport(d) ==
  IssueOrPass("missing-viewport", IF d.viewport THEN <<>> ELSE <<1>>)

\* 10. Skip link
CheckSkipLink(d) ==
  IF ~d.hasSkipLink /\ d.roleNavigation > 0
  THEN Found(<<>>, <<addWarning("no-skip-link")>>, <<>>)
  ELSE IF d.hasSkipLink
       THEN Found(<<>>, <<>>, <<addPass("no-skip-link")>>)
       ELSE Found(<<>>, <<>>, <<>>)

\* 11. Landmarks
landmarkCount(d) ==
  Cardinality(d.landmarkTags \cup
              (IF d.roleNavigation > 0 THEN {"nav"} ELSE {}))

CheckLandmarks(d) ==
  IssueOrPass("missing-landmark", IF landmarkCount(d) = 0 THEN <<1>> ELSE <<>>)

\* 12. Auto-playing media
CheckAutoplay(d) == IssueOrPass("autoplay-media", Excerpts(d.autoplayMedia))

\* 13. Positive tabindex
CheckTabindex(d) == IssueOrPass("tabindex-positive", Excerpts(d.posTab))

\* 14. Table headers
CheckTables(d) ==
  IF d.tablesNoHeader > 0
  THEN Found(<<addIssue("missing-table-header", Excerpts(d.tablesNoHeader))>>,
             <<>>, <<>>)
  ELSE IF d.dataTables > 0
       THEN Found(<<>>, <<>>, <<addPass("missing-table-header")>>)
       ELSE Found(<<>>, <<>>, <<>>)

\* 15. Meta refresh
CheckMetaRefresh(d) ==
  IssueOrPass("meta-refresh", IF d.metaRefresh > 0 THEN <<1>> ELSE <<>>)

\* the inline colour count settled as an issue or a pass
CheckInlineColor_counted(d) ==
  IssueOrPass("inline-styles-text",
              IF d.inlineColorCount > 5 THEN <<1>> ELSE <<>>)

\* 16. Inline color styles (warning only)
CheckInlineColor(d) ==
  Found(<<>>,
        IF d.inlineColorCount > 5 THEN <<addWarning("inline-styles-text")>>
        ELSE <<>>,
        <<>>)

\* 17. Color contrast estimation on inline styles
CheckContrast(d) ==
  IssueOrPass("color-contrast-inline", Excerpts(d.contrastIssues))

\* 18. Keyboard trap detection
CheckKeyboardTrap(d) == IssueOrPass("keyboard-trap", Excerpts(d.trapElements))

\* 19. Focus styles suppressed
CheckFocusStyle(d) ==
  IssueOrPass("missing-focus-style", Excerpts(d.focusSuppressed))

\* 20. Generic/ambiguous link text
CheckGenericLinks(d) ==
  IssueOrPass("generic-link-text", Excerpts(d.genericLinks))

\* 21. Non-interactive elements with onclick but no keyboard access
CheckKeyboardAccess(d) ==
  IssueOrPass("missing-keyboard-access", Excerpts(d.noKeyboard))

Checks(d) ==
  << CheckImages(d), CheckLang(d), CheckTitle(d), CheckHeadings(d),
     CheckSkipped(d), CheckFormLabels(d), CheckEmptyLinks(d),
     CheckEmptyButtons(d), CheckViewport(d), CheckSkipLink(d),
     CheckLandmarks(d), CheckAutoplay(d), CheckTabindex(d), CheckTables(d),
     CheckMetaRefresh(d), CheckInlineColor(d), CheckContrast(d),
     CheckKeyboardTrap(d), CheckFocusStyle(d), CheckGenericLinks(d),
     CheckKeyboardAccess(d) >>

RECURSIVE Gather(_, _, _)
Gather(cs, f, i) ==
  IF i > Len(cs) THEN <<>> ELSE cs[i][f] \o Gather(cs, f, i + 1)

CountImpact(issues, impact) ==
  Cardinality({i \in 1..Len(issues) : issues[i].impact = impact})

\* Math.floor in place of Math.round
RoundPercent_floor(p, t) == (100 * p) \div t


\* Math.round(p / t * 100) for integers p >= 0, t > 0
RoundPercent(p, t) == (200 * p + t) \div (2 * t)

score(issues, passes) ==
  LET totalChecks == Len(issues) + Len(passes)
  IN  IF totalChecks > 0 THEN RoundPercent(Len(passes), totalChecks) ELSE 0

\* the critical test as === 1 in place of > 0
complianceLevel_exactlyOne(issues) ==
  LET criticalIssues == CountImpact(issues, "critical")
      seriousIssues  == CountImpact(issues, "serious")
  IN  IF criticalIssues = 1 THEN "non-compliant"
      ELSE IF seriousIssues > 1 THEN "partially-compliant"
      ELSE IF Len(issues) > 0 THEN "needs-improvement"
      ELSE "compliant"

\* the serious threshold as > 0 in place of > 1
complianceLevel_oneSerious(issues) ==
  LET criticalIssues == CountImpact(issues, "critical")
      seriousIssues  == CountImpact(issues, "serious")
  IN  IF criticalIssues > 0 THEN "non-compliant"
      ELSE IF seriousIssues > 0 THEN "partially-compliant"
      ELSE IF Len(issues) > 0 THEN "needs-improvement"
      ELSE "compliant"


complianceLevel(issues) ==
  LET criticalIssues == CountImpact(issues, "critical")
      seriousIssues  == CountImpact(issues, "serious")
  IN  IF criticalIssues > 0 THEN "non-compliant"
      ELSE IF seriousIssues > 1 THEN "partially-compliant"
      ELSE IF Len(issues) > 0 THEN "needs-improvement"
      ELSE "compliant"

scanHTML(d, url) ==
  LET cs       == Checks(d)
      issues   == Gather(cs, "issues", 1)
      warnings == Gather(cs, "warnings", 1)
      passes   == Gather(cs, "passes", 1)
  IN  [url |-> url,
       scannedAt |-> clock,
       score |-> score(issues, passes),
       complianceLevel |-> complianceLevel(issues),
       summary |-> [totalChecks |-> Len(issues) + Len(passes),
                    passed |-> Len(passes),
                    issues |-> Len(issues),
                    warnings |-> Len(warnings),
                    critical |-> CountImpact(issues, "critical"),
                    serious |-> CountImpact(issues, "serious"),
                    moderate |-> CountImpact(issues, "moderate"),
                    minor |-> CountImpact(issues, "minor")],
       issues |-> issues,
       warnings |-> warnings,
       passes |-> passes]

(***************************************************************************)
(* The evaluator alone: a document is built from a base page by adding     *)
(* elements, then scanHTML is applied to it.                               *)
(***************************************************************************)
NoResult == [score |-> none]
PageUrl == [scheme |-> "https://", rest |-> "a.com"]

ScanInit ==
  /\ html \in {EmptyDoc, CleanDoc}
  /\ edits = 0
  /\ result = NoResult

CanEdit == result = NoResult /\ edits < MaxEdits

AddElement(f) ==
  /\ CanEdit
  /\ html' = [html EXCEPT ![f] = @ + 1]
  /\ edits' = edits + 1
  /\ UNCHANGED result

SetFlag(f) ==
  /\ CanEdit
  /\ ~html[f]
  /\ html' = [html EXCEPT ![f] = TRUE]
  /\ edits' = edits + 1
  /\ UNCHANGED result

AddHeading(l) ==
  /\ CanEdit
  /\ html' = [html EXCEPT !.headings = Append(@, l)]
  /\ edits' = edits + 1
  /\ UNCHANGED result

AddLandmark(k) ==
  /\ CanEdit
  /\ k \notin html.landmarkTags
  /\ html' = [html EXCEPT !.landmarkTags = @ \cup {k}]
  /\ edits' = edits + 1
  /\ UNCHANGED result

\* a <table> with more than 4 <td>, with or without <th>
AddDataTable(withHeader) ==
  /\ CanEdit
  /\ html' = [html EXCEPT !.dataTables = @ + 1,
                          !.tablesNoHeader = IF withHeader THEN @ ELSE @ + 1]
  /\ edits' = edits + 1
  /\ UNCHANGED result

\* an element whose inline style sets color and background below 4.5:1
AddLowContrast ==
  /\ CanEdit
  /\ html' = [html EXCEPT !.inlineColorCount = @ + 1,
                          !.contrastIssues = @ + 1]
  /\ edits' = edits + 1
  /\ UNCHANGED result

Scan ==
  /\ result = NoResult
  /\ result' = scanHTML(html, PageUrl)
  /\ UNCHANGED <<html, edits>>

(***************************************************************************)
(* Strings of the request bodies.  An e-mail address is its sequence of    *)
(* characters; a URL is an optional whitespace padding, a scheme prefix    *)
(* and the rest of the string.                                             *)
(***************************************************************************)
toLowerCase(str) ==
  [k \in 1..Len(str) |->
     CASE str[k] = "A" -> "a" [] str[k] = "B" -> "b" [] OTHER -> str[k]]

RECURSIVE trimLeft(_)
trimLeft(str) ==
  IF Len(str) > 0 /\ str[1] = " " THEN trimLeft(Tail(str)) ELSE str

RECURSIVE trimRight(_)
trimRight(str) ==
  IF Len(str) > 0 /\ str[Len(str)] = " "
  THEN trimRight(SubSeq(str, 1, Len(str) - 1)) ELSE str

trim(str) == trimRight(trimLeft(str))

\* /^[^\s@]+@[^\s@]+\.[^\s@]+$/
emailRegex(str) ==
  \E i, j \in 1..Len(str) :
     /\ 1 < i /\ i + 1 < j /\ j < Len(str)
     /\ str[i] = "@" /\ str[j] = "."
     /\ \A k \in 1..Len(str) : k # i => str[k] \notin {" ", "@"}

Url(pad, scheme, rest) == [pad |-> pad, scheme |-> scheme, rest |-> rest]

\* the empty string (or an absent field): !url holds
NoUrl == Url(FALSE, "", "")

\* url.trim(), then 'https://' is prefixed unless /^https?:\/\//i matches
normalizeUrl(u) ==
  [scheme |-> IF u.scheme = "" THEN "https://" ELSE u.scheme, rest |-> u.rest]

\* new URL(str) does not throw
urlParses(n) == n.rest \in {"a.com", "b.com", "a.com/p"}

\* the characters after the scheme, in pieces
pieces(rest) ==
  CASE rest = "a.com" -> <<"a", ".com">>
    [] rest = "b.com" -> <<"b", ".com">>
    [] rest = "a.com/p" -> <<"a", ".com", "/p">>
    [] OTHER -> <<rest>>

\* the URL as the string it is
urlString(n) == <<n.scheme>> \o pieces(n.rest)

\* String.prototype.includes
includes(str, sub) ==
  \E i \in 0..(Len(str) - Len(sub)) : SubSeq(str, i + 1, i + Len(sub)) = sub

\* new URL(str).hostname: what follows the scheme, up to the path
hostname(n) ==
  LET ps    == pieces(n.rest)
      slash == {k \in DOMAIN ps : ps[k] = "/p"}
      stop  == IF slash = {} THEN Len(ps) + 1
               ELSE CHOOSE k \in slash : \A l \in slash : k <= l
  IN  SubSeq(ps, 1, stop - 1)

\* the elements of seq at the positions in K, in order (Array.filter)
RECURSIVE pick(_, _)
pick(seq, K) ==
  IF seq = <<>> THEN <<>>
  ELSE pick(SubSeq(seq, 1, Len(seq) - 1), K)
         \o (IF Len(seq) \in K THEN <<seq[Len(seq)]>> ELSE <<>>)

\* Array.prototype.slice(start): a negative start counts from the end
sliceFrom(seq, start) ==
  LET from == IF start < 0
              THEN (IF Len(seq) + start > 0 THEN Len(seq) + start ELSE 0)
              ELSE Min(start, Len(seq))
  IN  SubSeq(seq, from + 1, Len(seq))

\* Array.prototype.reverse
reverse(seq) == [k \in 1..Len(seq) |-> seq[Len(seq) + 1 - k]]

(***************************************************************************)
(* Durations, in days.                                                     *)
(***************************************************************************)
DAY   == 1
WEEK  == 7
MONTH == 30

HISTORY_LIMIT == 1000

\* the last record overwritten in place of a push
push_overwrite(store, record) ==
  IF store = <<>> THEN <<record>>
  ELSE [store EXCEPT ![Len(store)] = record]

\* scanHistory.push(record)
push(store, record) == Append(store, record)

\* the oldest records kept in place of the latest
saveHistory_keepsOldest(h) ==
  IF Len(h) > HISTORY_LIMIT THEN SubSeq(h, 1, HISTORY_LIMIT) ELSE h

\* if (scanHistory.length > 1000) scanHistory = scanHistory.slice(-1000)
saveHistory(h) ==
  IF Len(h) > HISTORY_LIMIT
  THEN SubSeq(h, Len(h) - HISTORY_LIMIT + 1, Len(h)) ELSE h

\* frequency || 'weekly'
frequencyOr(frequency) == IF frequency = null THEN "weekly" ELSE frequency

\* nextScanAt offset of a new monitor
registerIntervalMs(frequency) ==
  IF build = "webhook" THEN WEEK
  ELSE IF frequency = "daily" THEN DAY
  ELSE IF frequency = "monthly" THEN MONTH ELSE WEEK

\* intervalMs of runScheduledScans
intervalMs(frequency) ==
  IF build = "webhook"
  THEN (IF frequency = "daily" THEN DAY ELSE WEEK)
  ELSE IF frequency = "daily" THEN DAY
  ELSE IF frequency = "monthly" THEN MONTH ELSE WEEK

\* Array.prototype.find over the indices that satisfy the predicate:
\* the first of them, 0 if there is none
findFirst(matches) ==
  IF matches = {} THEN 0
  ELSE CHOOSE k \in matches : \A l \in matches : k <= l

(***************************************************************************)
(* The event loop runs one handler at a time: a tick of runScheduledScans  *)
(* that is between two awaits (pc "loop" or "update") runs to its next     *)
(* await, and a response is written out, before any other handler or timer *)
(* is served.                                                              *)
(***************************************************************************)
\* setTimeout (the start-up kick) and setInterval (the hourly tick) each
\* start runScheduledScans; nothing keeps the two invocations apart
Timers == 2

TickIds == 1..Timers

IdleTick == [pc |-> "idle", now |-> 0, i |-> 0, score |-> 0, outcomes |-> <<>>]

NoResponse == [op |-> "none", arg |-> none, status |-> 0]

Respond(op, arg, status) == [op |-> op, arg |-> arg, status |-> status]

\* the body of the last answer of a read route
NoReply == [op |-> "none"]

Busy == \E t \in TickIds : ticks[t].pc \in {"loop", "update"}

Ready == ~Busy /\ resp = NoResponse

\* the response has left: the next event is served
ResponseSent ==
  /\ resp # NoResponse
  /\ resp' = NoResponse
  /\ reply' = NoReply
  /\ UNCHANGED <<build, clock, nextId, monitors, scanHistory, ticks, scanReq>>
  /\ UNCHANGED <<scanVars, fetch>>

(***************************************************************************)
(* POST /api/monitor                                                       *)
(***************************************************************************)
existingMonitor(ms, normalizedUrl, email) ==
  findFirst({k \in 1..Len(ms) :
               ms[k].url = normalizedUrl /\ ms[k].email = email})

\* uuidv4() of a monitor: the records are never removed, so the position
\* the record gets is an identifier no other monitor has
newMonitor(normalizedUrl, email, frequency) ==
  [id |-> Len(monitors) + 1,
   url |-> normalizedUrl,
   email |-> toLowerCase(trim(email)),
   frequency |-> frequencyOr(frequency),
   active |-> TRUE,
   createdAt |-> clock,
   lastScanAt |-> none,
   lastScore |-> none,
   nextScanAt |-> clock + registerIntervalMs(frequency)]

\* the existing record with its next scan recomputed from the frequency
reRegister_rescheduled(monitor, frequency) ==
  [monitor EXCEPT !.frequency = frequencyOr(frequency), !.active = TRUE,
                  !.nextScanAt = clock + registerIntervalMs(frequency)]

\* the existing record after a repeated registration; updatedAt, which is
\* written here and read nowhere, is not kept
reRegister(monitor, frequency) ==
  [monitor EXCEPT !.frequency = frequencyOr(frequency), !.active = TRUE]

RegisterMonitor(url, email, frequency) ==
  /\ Ready
  /\ LET normalizedUrl == normalizeUrl(url)
         k == existingMonitor(monitors, normalizedUrl, email)
     IN  IF url = NoUrl \/ email = <<>>
         THEN /\ resp' = Respond("monitor", none, 400)
              /\ UNCHANGED monitors
         ELSE IF ~emailRegex(email) \/ ~urlParses(normalizedUrl)
         THEN /\ resp' = Respond("monitor", none, 400)
              /\ UNCHANGED monitors
         ELSE IF k # 0
         THEN /\ monitors' = [monitors EXCEPT ![k] = reRegister(@, frequency)]
              /\ resp' = Respond("monitor", monitors[k].id, 200)
         ELSE /\ Len(monitors) < MaxMonitors
              /\ monitors' =
                   Append(monitors, newMonitor(normalizedUrl, email, frequency))
              /\ resp' = Respond("monitor", Len(monitors) + 1, 200)
  /\ UNCHANGED <<build, clock, nextId, scanHistory, ticks, scanReq>>
  /\ UNCHANGED <<scanVars, ioVars>>

(***************************************************************************)
(* DELETE /api/monitor/:id                                                 *)
(***************************************************************************)
monitorById(ms, id) == findFirst({k \in 1..Len(ms) : ms[k].id = id})

\* the flag left as it was
deactivate_forgotten(monitor) == monitor


deactivate(monitor) == [monitor EXCEPT !.active = FALSE]

DeactivateMonitor(id) ==
  /\ Ready
  /\ LET k == monitorById(monitors, id)
     IN  IF k = 0
         THEN /\ resp' = Respond("deactivate", id, 404)
              /\ UNCHANGED monitors
         ELSE /\ monitors' = [monitors EXCEPT ![k] = deactivate(@)]
              /\ resp' = Respond("deactivate", id, 200)
  /\ UNCHANGED <<build, clock, nextId, scanHistory, ticks, scanReq>>
  /\ UNCHANGED <<scanVars, ioVars>>

(***************************************************************************)
(* POST /api/alerts/configure (part_002 only).  alertPreferences is        *)
(* written here and read only by GET /api/alerts/status; it is not kept.   *)
(***************************************************************************)
validFreq == {"daily", "weekly", "biweekly", "monthly"}

\* monitors.filter(m => m.email === key).forEach(...)
configureMonitors(ms, key, freq, configEnabled) ==
  [k \in 1..Len(ms) |->
     IF ms[k].email = key
     THEN [ms[k] EXCEPT !.frequency = freq, !.active = configEnabled]
     ELSE ms[k]]

ConfigureAlerts(email, frequency, enabled) ==
  /\ Ready
  /\ build = "part_002"
  /\ IF email = <<>> \/ ~emailRegex(email)
     THEN /\ resp' = Respond("configure", none, 400)
          /\ UNCHANGED monitors
     ELSE LET freq == IF frequency \in validFreq THEN frequency ELSE "weekly"
              configEnabled == (enabled # "false")
              key == trim(toLowerCase(email))
          IN  /\ monitors' = configureMonitors(monitors, key, freq, configEnabled)
              /\ resp' = Respond("configure", none, 200)
  /\ UNCHANGED <<build, clock, nextId, scanHistory, ticks, scanReq>>
  /\ UNCHANGED <<scanVars, ioVars>>

(***************************************************************************)
(* POST /api/scan                                                          *)
(***************************************************************************)
scanRecord(page, url) == [id |-> nextId] @@ scanHTML(page, url)

ScanRequest(url) ==
  /\ Ready
  /\ scanReq.pc = "idle"
  /\ IF url = NoUrl \/ ~urlParses(normalizeUrl(url))
     THEN /\ resp' = Respond("scan", none, 400)
          /\ UNCHANGED scanReq
     ELSE /\ scanReq' = [pc |-> "fetch", url |-> normalizeUrl(url)]
          /\ UNCHANGED resp
  /\ UNCHANGED <<build, clock, nextId, monitors, scanHistory, ticks>>
  /\ UNCHANGED <<scanVars, ioVars>>

ScanResolve(page) ==
  /\ Ready
  /\ scanReq.pc = "fetch"
  /\ nextId <= MaxHistory
  /\ scanHistory' = saveHistory(push(scanHistory, scanRecord(page, scanReq.url)))
  /\ nextId' = nextId + 1
  /\ resp' = Respond("scan", nextId, 200)
  /\ scanReq' = [pc |-> "idle", url |-> normalizeUrl(NoUrl)]
  /\ UNCHANGED <<build, clock, monitors, ticks>>
  /\ UNCHANGED <<scanVars, ioVars>>

scanErrorStatus(msg) ==
  CASE msg = "timed out" -> 504
    [] msg \in {"ENOTFOUND", "getaddrinfo"} -> 400
    [] msg = "ECONNREFUSED" -> 502
    [] msg \in {"certificate", "SSL"} -> 502
    [] OTHER -> 500

ScanReject(msg) ==
  /\ Ready
  /\ scanReq.pc = "fetch"
  /\ resp' = Respond("scan", none, scanErrorStatus(msg))
  /\ scanReq' = [pc |-> "idle", url |-> normalizeUrl(NoUrl)]
  /\ UNCHANGED <<build, clock, nextId, monitors, scanHistory, ticks>>
  /\ UNCHANGED <<scanVars, ioVars>>

(***************************************************************************)
(* POST /api/compare                                                       *)
(***************************************************************************)
CompareRequest(url1, url2) ==
  /\ Ready
  /\ scanReq.pc = "idle"
  /\ IF url1 = NoUrl \/ url2 = NoUrl
        \/ ~urlParses(normalizeUrl(url1)) \/ ~urlParses(normalizeUrl(url2))
     THEN /\ resp' = Respond("compare", none, 400)
          /\ UNCHANGED scanReq
     ELSE /\ scanReq' = [pc |-> "compare", url |-> normalizeUrl(url1),
                         url2 |-> normalizeUrl(url2)]
          /\ UNCHANGED resp
  /\ UNCHANGED <<build, clock, nextId, monitors, scanHistory, ticks>>
  /\ UNCHANGED <<scanVars, ioVars>>

\* Promise.all resolves: both records are pushed, then saveHistory
CompareResolve(page1, page2) ==
  /\ Ready
  /\ scanReq.pc = "compare"
  /\ nextId + 1 <= MaxHistory
  /\ LET r1 == scanRecord(page1, scanReq.url)
         r2 == [scanRecord(page2, scanReq.url2) EXCEPT !.id = nextId + 1]
     IN  scanHistory' = saveHistory(push(push(scanHistory, r1), r2))
  /\ nextId' = nextId + 2
  /\ resp' = Respond("compare", nextId, 200)
  /\ scanReq' = [pc |-> "idle", url |-> normalizeUrl(NoUrl)]
  /\ UNCHANGED <<build, clock, monitors, ticks>>
  /\ UNCHANGED <<scanVars, ioVars>>

\* either fetch rejects or scanHTML throws
CompareReject ==
  /\ Ready
  /\ scanReq.pc = "compare"
  /\ resp' = Respond("compare", none, 500)
  /\ scanReq' = [pc |-> "idle", url |-> normalizeUrl(NoUrl)]
  /\ UNCHANGED <<build, clock, nextId, monitors, scanHistory, ticks>>
  /\ UNCHANGED <<scanVars, ioVars>>

(***************************************************************************)
(* The read routes.  A read answers at once: its body is in reply until    *)
(* the response has left.                                                  *)
(***************************************************************************)
Read(op, status, body) ==
  /\ Ready
  /\ resp' = Respond(op, none, status)
  /\ reply' = body
  /\ UNCHANGED <<build, clock, nextId, monitors, scanHistory, ticks, scanReq>>
  /\ UNCHANGED <<scanVars, fetch>>

\* const { url, limit = 20 } = req.query
DEFAULT_LIMIT == 20

limitOr(limit) == IF limit = none THEN DEFAULT_LIMIT ELSE limit

\* GET /api/history: filter, slice(-parseInt(limit)), reverse
history(store, url, limit) ==
  LET results == IF url # <<>>
                 THEN pick(store, {k \in DOMAIN store :
                                     includes(urlString(store[k].url), url)})
                 ELSE store
  IN  reverse(sliceFrom(results, 0 - limitOr(limit)))

HistoryRequest(url, limit) ==
  Read("history", 200,
       [op |-> "history", url |-> url, limit |-> limit,
        body |-> history(scanHistory, url, limit)])

\* GET /api/scan/:id
GetScan(id) ==
  LET found == {k \in DOMAIN scanHistory : scanHistory[k].id = id}
  IN  IF found = {}
      THEN Read("get", 404, [op |-> "get", id |-> id, body |-> NoResult])
      ELSE Read("get", 200, [op |-> "get", id |-> id,
                             body |-> scanHistory[findFirst(found)]])

\* scanHistory.filter(s => new URL(s.url).hostname === domain)
urlScans(store, domain) ==
  pick(store, {k \in DOMAIN store : hostname(store[k].url) = domain})

dataPoint(s) ==
  [id |-> s.id, date |-> s.scannedAt, score |-> s.score,
   issues |-> s.summary.issues, critical |-> s.summary.critical,
   passed |-> s.summary.passed, complianceLevel |-> s.complianceLevel]

NoTrend == [direction |-> null]

\* equal scores labelled improving
direction_orEqual(first, last) ==
  IF last.score >= first.score THEN "improving"
  ELSE IF last.score < first.score THEN "declining" ELSE "stable"

direction(first, last) ==
  IF last.score > first.score THEN "improving"
  ELSE IF last.score < first.score THEN "declining" ELSE "stable"

trendOf(dataPoints) ==
  IF Len(dataPoints) >= 2
  THEN LET first == dataPoints[1]
           last  == dataPoints[Len(dataPoints)]
       IN  [scoreChange |-> last.score - first.score,
            issuesChange |-> last.issues - first.issues,
            direction |-> direction(first, last),
            totalScans |-> Len(dataPoints),
            firstScan |-> first.date,
            lastScan |-> last.date]
  ELSE NoTrend

\* GET /api/trend
TrendRequest(url) ==
  IF url = NoUrl \/ ~urlParses(normalizeUrl(url))
  THEN Read("trend", 400, [op |-> "trend", url |-> url, status |-> 400])
  ELSE LET scans == urlScans(scanHistory, hostname(normalizeUrl(url)))
           dataPoints == [k \in DOMAIN scans |-> dataPoint(scans[k])]
       IN  Read("trend", 200,
                [op |-> "trend", url |-> url, status |-> 200,
                 scans |-> dataPoints, trend |-> trendOf(dataPoints)])

\* [...new Set(list)]: the first occurrence of each element
uniq(list) ==
  pick(list, {k \in DOMAIN list : \A j \in 1..(k - 1) : list[j] # list[k]})

\* the issues told apart by id and occurrence count in place of the id
issueIds_withCount(scan) ==
  [k \in DOMAIN scan.issues |-> <<scan.issues[k].id, scan.issues[k].count>>]

\* scan.issues.map(iss => iss.id)
issueIds(scan) == [k \in DOMAIN scan.issues |-> scan.issues[k].id]

\* [...a].filter(id => !b.has(id))
without(ids, others) ==
  pick(ids, {k \in DOMAIN ids : \A j \in DOMAIN others : others[j] # ids[k]})

NoDiff == [issuesFixedCount |-> none]

diffOf(prev, scan) ==
  LET prevIssueIds == uniq(issueIds(prev))
      currIssueIds == uniq(issueIds(scan))
      fixed        == without(prevIssueIds, currIssueIds)
      newIssues    == without(currIssueIds, prevIssueIds)
  IN  [scoreChange |-> scan.score - prev.score,
       issuesFixed |-> fixed,
       issuesFixedCount |-> Len(fixed),
       newIssues |-> newIssues,
       newIssuesCount |-> Len(newIssues)]

historyEntry(scans, i) ==
  [id |-> scans[i].id, date |-> scans[i].scannedAt, score |-> scans[i].score,
   complianceLevel |-> scans[i].complianceLevel,
   issueCount |-> scans[i].summary.issues,
   issueIds |-> issueIds(scans[i]),
   diff |-> IF i > 1 THEN diffOf(scans[i - 1], scans[i]) ELSE NoDiff]

\* GET /api/scan-history/:encodedUrl
DiffRequest(url) ==
  IF ~urlParses(normalizeUrl(url))
  THEN Read("diff", 400, [op |-> "diff", url |-> url, status |-> 400])
  ELSE LET scans == urlScans(scanHistory, hostname(normalizeUrl(url)))
           entries == [i \in DOMAIN scans |-> historyEntry(scans, i)]
       IN  Read("diff", 200,
                [op |-> "diff", url |-> url, status |-> 200,
                 history |-> entries,
                 latestDiff |-> IF Len(entries) >= 2
                                THEN entries[Len(entries)].diff ELSE NoDiff])

(***************************************************************************)
(* runScheduledScans                                                       *)
(***************************************************************************)
\* setInterval / setTimeout fire: const now = new Date()
TickStart(t) ==
  /\ Ready
  /\ ticks[t].pc = "idle"
  /\ \A u \in TickIds : u < t => ticks[u].pc # "idle"
  /\ ticks' = [ticks EXCEPT ![t] =
                 [pc |-> "loop", now |-> clock, i |-> 1, score |-> 0,
                  outcomes |-> <<>>]]
  /\ UNCHANGED <<build, clock, nextId, monitors, scanHistory, scanReq, resp>>
  /\ UNCHANGED <<scanVars, ioVars>>

\* the active test left out
isDue_ignoresActive(monitor, now) ==
  ~(monitor.nextScanAt # none /\ monitor.nextScanAt > now)


\* neither continue statement of the loop body is taken
isDue(monitor, now) ==
  /\ monitor.active
  /\ ~(monitor.nextScanAt # none /\ monitor.nextScanAt > now)

\* the head of the for-of body: the two continue statements, else the fetch
TickVisit(t) ==
  /\ ticks[t].pc = "loop"
  /\ ticks[t].i <= Len(monitors)
  /\ IF isDue(monitors[ticks[t].i], ticks[t].now)
     THEN ticks' = [ticks EXCEPT ![t].pc = "fetch"]
     ELSE ticks' = [ticks EXCEPT ![t].i = @ + 1,
                                 ![t].outcomes = Append(@, "skip")]
  /\ UNCHANGED <<build, clock, nextId, monitors, scanHistory, scanReq, resp>>
  /\ UNCHANGED <<scanVars, ioVars>>

\* the for-of loop is exhausted
TickEnd(t) ==
  /\ ticks[t].pc = "loop"
  /\ ticks[t].i > Len(monitors)
  /\ ticks' = [ticks EXCEPT ![t] = IdleTick]
  /\ UNCHANGED <<build, clock, nextId, monitors, scanHistory, scanReq, resp>>
  /\ UNCHANGED <<scanVars, ioVars>>

\* await fetchHTML resolves: scanHTML, scanHistory.push, saveHistory
FetchResolve(t, page) ==
  /\ Ready
  /\ ticks[t].pc = "fetch"
  /\ nextId <= MaxHistory
  /\ LET rec == scanRecord(page, monitors[ticks[t].i].url)
     IN  /\ scanHistory' = saveHistory(push(scanHistory, rec))
         /\ ticks' = [ticks EXCEPT ![t].pc = "update", ![t].score = rec.score]
  /\ nextId' = nextId + 1
  /\ UNCHANGED <<build, clock, monitors, scanReq, resp>>
  /\ UNCHANGED <<scanVars, ioVars>>

\* monitor.lastScanAt, lastScore, nextScanAt; saveMonitors
updateMonitor(monitor, now, resultScore) ==
  [monitor EXCEPT !.lastScanAt = now,
                  !.lastScore = resultScore,
                  !.nextScanAt = now + intervalMs(monitor.frequency)]

TickUpdate(t) ==
  /\ ticks[t].pc = "update"
  /\ monitors' = [monitors EXCEPT ![ticks[t].i] =
                    updateMonitor(@, ticks[t].now, ticks[t].score)]
  /\ ticks' = [ticks EXCEPT ![t].pc = "loop", ![t].i = @ + 1, ![t].score = 0,
                            ![t].outcomes = Append(@, "ok")]
  /\ UNCHANGED <<build, clock, nextId, scanHistory, scanReq, resp>>
  /\ UNCHANGED <<scanVars, ioVars>>

\* the error leaves the loop instead of being caught inside it
afterFailure_abort(tick) == IdleTick

\* the monitor is written after the try statement, also when it failed
afterFailure_update(tick) == [tick EXCEPT !.pc = "update"]

\* the catch block logs and the for-of loop goes on with the next monitor
afterFailure(tick) ==
  [tick EXCEPT !.pc = "loop", !.i = @ + 1, !.outcomes = Append(@, "fail")]

\* fetchHTML rejects or scanHTML throws
FetchReject(t) ==
  /\ Ready
  /\ ticks[t].pc = "fetch"
  /\ ticks' = [ticks EXCEPT ![t] = afterFailure(@)]
  /\ UNCHANGED <<build, clock, nextId, monitors, scanHistory, scanReq, resp>>
  /\ UNCHANGED <<scanVars, ioVars>>

AdvanceClock ==
  /\ Ready
  /\ clock < MaxClock
  /\ clock' = clock + 1
  /\ UNCHANGED <<build, nextId, monitors, scanHistory, ticks, scanReq, resp>>
  /\ UNCHANGED <<scanVars, ioVars>>

(***************************************************************************)
(* fetchHTML: one promise, one request at a time, one timer per request.   *)
(* The body is its length in characters.                                   *)
(***************************************************************************)
MAX_REDIRECTS == 5

MAX_BODY == 5 * 1024 * 1024

IdleFetch ==
  [pc |-> "idle", event |-> "none", redirects |-> 0, requests |-> 0,
   timer |-> FALSE, req |-> FALSE, destroyed |-> FALSE, size |-> 0,
   chunks |-> 0, outcome |-> "pending", error |-> "", body |-> none,
   crashed |-> FALSE, location |-> "none"]

\* every call of resolve / reject takes effect
settle_overwrite(f, outcome, error, body) ==
  [f EXCEPT !.outcome = outcome, !.error = error, !.body = body]

\* resolve / reject of a promise: the first call settles it, later ones do
\* nothing
settle(f, outcome, error, body) ==
  IF f.outcome = "pending"
  THEN [f EXCEPT !.outcome = outcome, !.error = error, !.body = body]
  ELSE f

resolve(f, data) == settle(f, "resolved", "", data)

reject(f, message) == settle(f, "rejected", message, none)

\* doFetch: setTimeout, then protocol.get
doFetch(f) ==
  [f EXCEPT !.pc = "request", !.requests = @ + 1, !.timer = TRUE,
            !.req = TRUE, !.destroyed = FALSE]

\* protocol.get throws on a URL of the other scheme: the timer is set, req
\* never is
doFetchThrows(f) == [f EXCEPT !.timer = TRUE, !.req = FALSE]

\* the redirect count reached the cap as >= in place of >
tooManyRedirects_atCap(redirects) == redirects >= MAX_REDIRECTS

tooManyRedirects(redirects) == redirects > MAX_REDIRECTS

\* the size test as >= in place of >
tooLarge_atCeiling(length) == length >= MAX_BODY

tooLarge(length) == length > MAX_BODY

FetchStep(f) ==
  /\ fetch' = f
  /\ UNCHANGED <<srvVars, scanVars, reply>>

\* fetchHTML(urlStr): new URL(urlStr) throws, or the first doFetch
FetchCall(urlOk) ==
  /\ fetch.pc = "idle"
  /\ FetchStep(IF urlOk
               THEN doFetch([fetch EXCEPT !.event = "call"])
               ELSE reject([fetch EXCEPT !.pc = "closed", !.event = "call"],
                           "Invalid URL"))

Awaiting == fetch.pc = "request" /\ fetch.req /\ ~fetch.destroyed

\* a 3xx response with a Location header
onRedirect(f, location) ==
  LET g == [f EXCEPT !.event = "redirect", !.timer = FALSE,
                     !.redirects = @ + 1, !.location = location]
  IN  IF tooManyRedirects(g.redirects)
      THEN reject([g EXCEPT !.pc = "closed"], "Too many redirects")
      ELSE CASE location = "ok" -> doFetch(g)
             [] location = "malformed" ->
                  reject([g EXCEPT !.pc = "closed"], "Invalid redirect URL")
             [] location = "scheme" ->
                  reject(doFetchThrows([g EXCEPT !.pc = "closed"]),
                         "Invalid redirect URL")

ResponseRedirect(location) ==
  /\ Awaiting
  /\ FetchStep(onRedirect(fetch, location))

\* a response that is neither a redirect nor 200
ResponseStatus ==
  /\ Awaiting
  /\ FetchStep(reject([fetch EXCEPT !.pc = "closed", !.event = "status",
                                    !.timer = FALSE], "HTTP status"))

Response200 ==
  /\ Awaiting
  /\ FetchStep([fetch EXCEPT !.pc = "body", !.event = "response"])

Receiving == fetch.pc = "body" /\ ~fetch.destroyed

\* res.on('data')
onData(f, n) ==
  LET g == [f EXCEPT !.event = "data", !.size = @ + n, !.chunks = @ + 1]
  IN  IF tooLarge(g.size)
      THEN reject([g EXCEPT !.timer = FALSE, !.destroyed = TRUE],
                  "Response too large (>5MB)")
      ELSE g

Data(n) ==
  /\ Receiving
  /\ fetch.chunks < MaxChunks
  /\ FetchStep(onData(fetch, n))

\* res.on('end')
End ==
  /\ Receiving
  /\ FetchStep(resolve([fetch EXCEPT !.pc = "closed", !.event = "end",
                                     !.timer = FALSE], fetch.size))

\* res.on('error') and req.on('error') of the current request, also after
\* it was destroyed
Error ==
  /\ fetch.pc \in {"request", "body"}
  /\ fetch.req
  /\ FetchStep(reject([fetch EXCEPT !.pc = "closed", !.event = "error",
                                    !.timer = FALSE], "socket error"))

\* req.on('error') of a request an earlier redirect answered: its closure
\* clears the timer of that request, not the current one
StaleError ==
  /\ fetch.redirects > 0
  /\ fetch.pc \in {"request", "body"}
  /\ FetchStep(reject([fetch EXCEPT !.event = "stale"], "socket error"))

\* req.on('timeout'): the socket was idle
SocketTimeout ==
  /\ fetch.pc \in {"request", "body"}
  /\ fetch.req /\ ~fetch.destroyed
  /\ FetchStep(reject([fetch EXCEPT !.event = "idle", !.destroyed = TRUE,
                                    !.timer = FALSE], "Connection timed out"))

\* the setTimeout callback: req.destroy(), reject; without a req the
\* callback throws before it rejects
Timeout ==
  /\ fetch.timer
  /\ FetchStep(IF fetch.req
               THEN reject([fetch EXCEPT !.event = "timeout", !.timer = FALSE,
                                         !.destroyed = TRUE],
                           "Request timed out")
               ELSE [fetch EXCEPT !.event = "timeout", !.timer = FALSE,
                                  !.crashed = TRUE])

(***************************************************************************)
(* Requests and pages the environment sends.                               *)
(***************************************************************************)
Emails == { <<"a", "@", "b", ".", "c">>,
            <<"A", "@", "b", ".", "c">>,
            <<"b", "@", "b", ".", "c">>,
            <<"a", "@", "b", "c">> }

UrlInputs == { NoUrl,
               Url(FALSE, "", "a.com"),
               Url(TRUE, "https://", "a.com"),
               Url(FALSE, "", "a b") }

FrequencyInputs == {null, "daily"}

AlertFrequencies == {"monthly", "hourly"}

EnabledInputs == {"undefined", "false"}

SamplePages == {EmptyDoc, CleanDoc}

FetchErrors == {"timed out", "ENOTFOUND"}

(***************************************************************************)
(* The state after start-up.  monitors.json is read at start-up, so the    *)
(* list may hold the monitors an earlier run of the server registered.     *)
(***************************************************************************)
ServerInit ==
  /\ clock = 0
  /\ nextId = 1
  /\ scanHistory = <<>>
  /\ ticks = [t \in TickIds |-> IdleTick]
  /\ scanReq = [pc |-> "idle", url |-> normalizeUrl(NoUrl)]
  /\ resp = NoResponse
  /\ fetch = IdleFetch
  /\ reply = NoReply

EvaluatorIdle == html = EmptyDoc /\ edits = 0 /\ result = NoResult

\* the k-th monitor of an earlier run, registered one interval ago:
\* its nextScanAt has been reached
persistedMonitor(k, frequency) ==
  [id |-> k,
   url |-> [scheme |-> "https://",
            rest |-> IF k % 2 = 1 THEN "a.com" ELSE "b.com"],
   email |-> <<IF k <= 2 THEN "a" ELSE "b", "@", "b", ".", "c">>,
   frequency |-> frequency,
   active |-> TRUE,
   createdAt |-> 0,
   lastScanAt |-> none,
   lastScore |-> none,
   nextScanAt |-> 0]

\* the lists of an earlier run: daily, weekly, monthly monitors in turn
persistedFrequency(k) ==
  CASE k % 3 = 0 -> "daily" [] k % 3 = 1 -> "weekly" [] OTHER -> "monthly"

PersistedLists ==
  { [k \in 1..n |-> persistedMonitor(k, persistedFrequency(k + r))] :
      n \in 0..MaxMonitors, r \in 0..2 }

(***************************************************************************)
(* The monitor registry: registration, deactivation, alert preferences.    *)
(***************************************************************************)
InitRegistry ==
  /\ build = "part_002"
  /\ ServerInit
  /\ monitors = <<>>
  /\ EvaluatorIdle

NextRegistry ==
  \/ \E u \in UrlInputs, e \in Emails, f \in FrequencyInputs :
        RegisterMonitor(u, e, f)
  \/ \E id \in 1..(Len(monitors) + 1) : DeactivateMonitor(id)
  \/ \E e \in Emails, f \in AlertFrequencies, en \in EnabledInputs :
        ConfigureAlerts(e, f, en)
  \/ ResponseSent
  \/ AdvanceClock

SpecRegistry == InitRegistry /\ [][NextRegistry]_vars

(***************************************************************************)
(* The registry with frequencies outside daily, weekly, monthly in the     *)
(* request bodies.                                                         *)
(***************************************************************************)
AnyFrequencies == {null, "daily", "hourly", "biweekly"}

FrequencyEmails == { <<"a", "@", "b", ".", "c">>, <<"b", "@", "b", ".", "c">> }

FrequencyUrls == { Url(FALSE, "", "a.com"), Url(FALSE, "", "b.com") }

NextFrequency ==
  \/ \E u \in FrequencyUrls, e \in FrequencyEmails, f \in AnyFrequencies :
        RegisterMonitor(u, e, f)
  \/ \E e \in FrequencyEmails, f \in AnyFrequencies \ {null},
         en \in EnabledInputs :
        ConfigureAlerts(e, f, en)
  \/ ResponseSent

SpecFrequency == InitRegistry /\ [][NextFrequency]_vars

(***************************************************************************)
(* Registration over monitors an earlier run has already scanned: the      *)
(* monitor at position d, if any, was deactivated since.                   *)
(***************************************************************************)
scannedMonitor(k, frequency, isActive) ==
  [persistedMonitor(k, frequency) EXCEPT
     !.active = isActive,
     !.lastScanAt = 0,
     !.lastScore = 80,
     !.nextScanAt = intervalMs(frequency)]

ScannedLists ==
  { [k \in 1..n |-> scannedMonitor(k, persistedFrequency(k + r), k # d)] :
      n \in 1..MaxMonitors, r \in 0..1, d \in 0..1 }

ReRegisterFrequencies == {null, "daily"}

InitReRegister ==
  /\ build = "part_002"
  /\ ServerInit
  /\ monitors \in ScannedLists
  /\ EvaluatorIdle

NextReRegister ==
  \/ \E u \in FrequencyUrls, e \in FrequencyEmails,
         f \in ReRegisterFrequencies :
        RegisterMonitor(u, e, f)
  \/ ResponseSent
  \/ AdvanceClock

SpecReRegister == InitReRegister /\ [][NextReRegister]_vars

(***************************************************************************)
(* The scheduler over the monitors of an earlier run.                      *)
(***************************************************************************)
InitScheduler ==
  /\ build = "part_002"
  /\ ServerInit
  /\ monitors \in PersistedLists
  /\ EvaluatorIdle

NextScheduler ==
  \/ \E t \in TickIds : TickStart(t)
  \/ \E t \in TickIds : TickVisit(t)
  \/ \E t \in TickIds : TickEnd(t)
  \/ \E t \in TickIds, page \in SamplePages : FetchResolve(t, page)
  \/ \E t \in TickIds : TickUpdate(t)
  \/ \E t \in TickIds : FetchReject(t)
  \/ \E id \in 1..Len(monitors) : DeactivateMonitor(id)
  \/ ResponseSent

SpecScheduler == InitScheduler /\ [][NextScheduler]_vars

\* the same scheduler as src/routes/webhook.js has it
InitWebhook ==
  /\ build = "webhook"
  /\ ServerInit
  /\ monitors \in PersistedLists
  /\ EvaluatorIdle

SpecWebhook == InitWebhook /\ [][NextScheduler]_vars

\* fetchHTML settles within its timeout and the event loop runs every
\* continuation that is ready; the synchronous part of a tick runs to its
\* next await and a handler sends the response it has built
TickFairness ==
  /\ WF_vars(ResponseSent)
  /\ \A t \in TickIds :
        /\ WF_vars(TickVisit(t))
        /\ WF_vars(TickUpdate(t))
        /\ WF_vars(TickEnd(t))
        /\ SF_vars(FetchReject(t) \/ \E page \in SamplePages : FetchResolve(t, page))

FairScheduler == InitScheduler /\ [][NextScheduler]_vars /\ TickFairness

(***************************************************************************)
(* The evaluator alone.                                                    *)
(***************************************************************************)
InitScan ==
  /\ build = "part_002"
  /\ ServerInit
  /\ monitors = <<>>
  /\ ScanInit

NextScan ==
  /\ UNCHANGED <<srvVars, ioVars>>
  /\ \/ \E f \in CountFields : AddElement(f)
     \/ \E f \in FlagFields : SetFlag(f)
     \/ \E l \in HeadingLevels : AddHeading(l)
     \/ \E k \in LandmarkKinds : AddLandmark(k)
     \/ \E h \in BOOLEAN : AddDataTable(h)
     \/ AddLowContrast
     \/ Scan

SpecScan == InitScan /\ [][NextScan]_vars

(***************************************************************************)
(* One call of fetchHTML and the events of its requests.                   *)
(***************************************************************************)
\* res.headers.location: a URL of the scheme of the call, no URL, or a URL
\* of the other scheme (http for an https call, https for an http call)
Locations == {"ok", "malformed", "scheme"}

ChunkSizes == {1, MAX_BODY - 1, MAX_BODY}

InitFetch ==
  /\ build = "part_002"
  /\ ServerInit
  /\ monitors = <<>>
  /\ EvaluatorIdle

NextFetch ==
  \/ \E urlOk \in BOOLEAN : FetchCall(urlOk)
  \/ \E location \in Locations : ResponseRedirect(location)
  \/ ResponseStatus
  \/ Response200
  \/ \E n \in ChunkSizes : Data(n)
  \/ End
  \/ Error
  \/ StaleError
  \/ SocketTimeout
  \/ Timeout

SpecFetch == InitFetch /\ [][NextFetch]_vars

\* a timer that is set fires unless it is cleared
FairFetch == SpecFetch /\ WF_vars(Timeout)

(***************************************************************************)
(* The scan store: scans, comparisons and the read routes over a store     *)
(* that starts empty.                                                      *)
(***************************************************************************)
OneImage == [CleanDoc EXCEPT !.imgsNoAlt = 1]

TwoImages == [CleanDoc EXCEPT !.imgsNoAlt = 2]

StorePages == {CleanDoc, OneImage, TwoImages}

StoreUrls == { Url(FALSE, "", "a.com"),
               Url(FALSE, "https://", "a.com/p"),
               Url(TRUE, "", "b.com"),
               Url(FALSE, "", "a b") }

Filters == { <<>>, <<"a">>, <<".com", "/p">>, <<"x">> }

Limits == {none, 0, 1, 2}

InitStore ==
  /\ build = "part_002"
  /\ ServerInit
  /\ monitors = <<>>
  /\ EvaluatorIdle

NextStore ==
  \/ \E u \in StoreUrls \cup {NoUrl} : ScanRequest(u)
  \/ \E page \in StorePages : ScanResolve(page)
  \/ \E msg \in FetchErrors : ScanReject(msg)
  \/ \E u1, u2 \in {Url(FALSE, "", "a.com"), Url(FALSE, "", "a b")} :
        CompareRequest(u1, u2)
  \/ \E p1, p2 \in {CleanDoc, OneImage} : CompareResolve(p1, p2)
  \/ CompareReject
  \/ \E f \in Filters, l \in Limits : HistoryRequest(f, l)
  \/ \E id \in 1..nextId : GetScan(id)
  \/ \E u \in StoreUrls \cup {NoUrl} : TrendRequest(u)
  \/ \E u \in StoreUrls : DiffRequest(u)
  \/ ResponseSent

SpecStore == InitStore /\ [][NextStore]_vars

(***************************************************************************)
(* parseColor.  A colour expression, trimmed and in lower case, is a word, *)
(* '#' followed by hex digits, or 'rgb(' / 'rgba(' followed by numbers.    *)
(***************************************************************************)
Word(text) == [form |-> "word", text |-> text]
Hex(digits) == [form |-> "hex", digits |-> digits]
Rgb(args) == [form |-> "rgb", args |-> args]

\* null and undefined as values of a lookup; a value that is no string
nullColor == [form |-> "null"]
undefined == [form |-> "undefined"]
inherited == [form |-> "object"]

\* colorStr.match is not a function
TypeError == [form |-> "TypeError"]

namedColors ==
  [white    |-> Hex(<<15, 15, 15, 15, 15, 15>>),
   black    |-> Hex(<<0, 0, 0, 0, 0, 0>>),
   red      |-> Hex(<<15, 15, 0, 0, 0, 0>>),
   green    |-> Hex(<<0, 0, 8, 0, 0, 0>>),
   blue     |-> Hex(<<0, 0, 0, 0, 15, 15>>),
   yellow   |-> Hex(<<15, 15, 15, 15, 0, 0>>),
   gray     |-> Hex(<<8, 0, 8, 0, 8, 0>>),
   grey     |-> Hex(<<8, 0, 8, 0, 8, 0>>),
   silver   |-> Hex(<<12, 0, 12, 0, 12, 0>>),
   orange   |-> Hex(<<15, 15, 10, 5, 0, 0>>),
   purple   |-> Hex(<<8, 0, 0, 0, 8, 0>>),
   navy     |-> Hex(<<0, 0, 0, 0, 8, 0>>),
   teal     |-> Hex(<<0, 0, 8, 0, 8, 0>>),
   maroon   |-> Hex(<<8, 0, 0, 0, 0, 0>>),
   lime     |-> Hex(<<0, 0, 15, 15, 0, 0>>),
   aqua     |-> Hex(<<0, 0, 15, 15, 15, 15>>),
   fuchsia  |-> Hex(<<15, 15, 0, 0, 15, 15>>),
   olive    |-> Hex(<<8, 0, 8, 0, 0, 0>>),
   darkgray |-> Hex(<<10, 9, 10, 9, 10, 9>>),
   lightgray |-> Hex(<<13, 3, 13, 3, 13, 3>>),
   transparent |-> nullColor]

\* the lower-case property names an object literal inherits from
\* Object.prototype
inheritedKeys == {"constructor", "__proto__"}

\* table[key] of an object literal
lookup(table, key) ==
  IF key \in DOMAIN table THEN table[key]
  ELSE IF key \in inheritedKeys THEN inherited
  ELSE undefined

\* colorStr.match(/^#([0-9a-f]{3,8})$/)
hexMatch(c) == c.form = "hex" /\ Len(c.digits) \in 3..8

\* colorStr.match(/rgba?\(\s*(\d+)\s*,\s*(\d+)\s*,\s*(\d+)/)
rgbMatch(c) == c.form = "rgb" /\ Len(c.args) >= 3

\* parseInt(hex.substr(i - 1, 2), 16)
byte(hex, i) == 16 * hex[i] + hex[i + 1]

parseColor(colorStr) ==
  IF colorStr = Word("") THEN nullColor
  ELSE
    LET named == IF colorStr.form = "word"
                 THEN lookup(namedColors, colorStr.text) ELSE undefined
        c     == IF named # undefined THEN named ELSE colorStr
        hex   == IF hexMatch(c) /\ Len(c.digits) = 3
                 THEN <<c.digits[1], c.digits[1], c.digits[2], c.digits[2],
                        c.digits[3], c.digits[3]>>
                 ELSE IF hexMatch(c) THEN c.digits ELSE <<>>
    IN  IF c = nullColor THEN nullColor
        ELSE IF c = inherited THEN TypeError
        ELSE IF hexMatch(c) /\ Len(hex) \in {6, 8}
             THEN [r |-> byte(hex, 1), g |-> byte(hex, 3), b |-> byte(hex, 5)]
        ELSE IF rgbMatch(c)
             THEN [r |-> c.args[1], g |-> c.args[2], b |-> c.args[3]]
        ELSE nullColor

\* a call of parseColor
ParseColor(expr) ==
  /\ reply' = [op |-> "parseColor", expr |-> expr, value |-> parseColor(expr)]
  /\ UNCHANGED <<build, clock, nextId, monitors, scanHistory, ticks, scanReq,
                 resp, fetch>>
  /\ UNCHANGED scanVars

\* check 17 on one element whose style sets color and background
contrastCheck(fg, bg) ==
  IF parseColor(fg) = TypeError \/ parseColor(bg) = TypeError THEN "threw"
  ELSE IF parseColor(fg) # nullColor /\ parseColor(bg) # nullColor
       THEN "compared"
  ELSE "skipped"

\* POST /api/scan after the fetch, the page holding one element styled
\* color: fg; background: bg.  low: the contrast ratio is below 4.5, which
\* it is for equal colours and is left open for others.
StyledResolve(fg, bg, low) ==
  /\ Ready
  /\ scanReq.pc = "fetch"
  /\ nextId <= MaxHistory
  /\ parseColor(fg) = parseColor(bg) => low
  /\ LET outcome == contrastCheck(fg, bg)
         page == [CleanDoc EXCEPT
                    !.inlineColorCount = 1,
                    !.contrastIssues =
                       IF outcome = "compared" /\ low THEN 1 ELSE 0]
     IN  /\ IF outcome = "threw"
            THEN /\ resp' = Respond("scan", none, scanErrorStatus("not a function"))
                 /\ UNCHANGED <<scanHistory, nextId>>
            ELSE /\ scanHistory' =
                      saveHistory(push(scanHistory, scanRecord(page, scanReq.url)))
                 /\ nextId' = nextId + 1
                 /\ resp' = Respond("scan", nextId, 200)
         /\ reply' = [op |-> "contrast", fg |-> fg, bg |-> bg,
                      outcome |-> outcome]
  /\ scanReq' = [pc |-> "idle", url |-> normalizeUrl(NoUrl)]
  /\ UNCHANGED <<build, clock, monitors, ticks, fetch>>
  /\ UNCHANGED scanVars

HexDigits == {0, 8, 15}

HexExprs ==
  {Hex([k \in 1..n |-> d]) : n \in 2..MaxDigits, d \in HexDigits}
    \cup {Hex(<<15, 0, 8>>), Hex(<<1, 2, 10, 11, 12, 13>>)}

RgbExprs == {Rgb(a) : a \in UNION {[1..n -> {0, 255}] : n \in 2..4}}

WordExprs ==
  {Word(w) : w \in DOMAIN namedColors
                   \cup {"", "blurple", "inherit", "constructor", "__proto__"}}

StyleExprs ==
  {Word("white"), Word("black"), Word("transparent"), Word("blurple"),
   Word("constructor"), Hex(<<15, 15, 15>>), Hex(<<0, 0, 0, 0>>),
   Rgb(<<0, 0, 0>>)}

InitColor ==
  /\ build = "part_002"
  /\ ServerInit
  /\ monitors = <<>>
  /\ EvaluatorIdle

NextColor ==
  \/ \E expr \in WordExprs \cup HexExprs \cup RgbExprs : ParseColor(expr)
  \/ ScanRequest(Url(FALSE, "", "a.com"))
  \/ \E fg, bg \in StyleExprs, low \in BOOLEAN : StyledResolve(fg, bg, low)
  \/ ResponseSent

SpecColor == InitColor /\ [][NextColor]_vars

(***************************************************************************)
(* contrastRatio.  Numbers are fixed-point: a linearised channel in        *)
(* ten-thousandths, a luminance in millionths, a ratio in thousandths.     *)
(***************************************************************************)
\* v <= 0.03928 ? v/12.92 : Math.pow((v+0.055)/1.055, 2.4) for v = k/255,
\* k = 0..255, in ten-thousandths
linear ==
  <<
     0, 3, 6, 9, 12, 15, 18, 21, 24, 27, 30, 33,
     37, 40, 44, 48, 52, 56, 60, 65, 70, 75, 80, 86,
     91, 97, 103, 110, 116, 123, 130, 137, 144, 152, 160, 168,
     176, 185, 194, 203, 212, 222, 232, 242, 252, 262, 273, 284,
     296, 307, 319, 331, 343, 356, 369, 382, 395, 409, 423, 437,
     452, 467, 482, 497, 513, 529, 545, 561, 578, 595, 612, 630,
     648, 666, 685, 704, 723, 742, 762, 782, 802, 823, 844, 865,
     887, 908, 931, 953, 976, 999, 1022, 1046, 1070, 1095, 1119, 1144,
     1170, 1195, 1221, 1248, 1274, 1301, 1329, 1356, 1384, 1413, 1441, 1470,
     1500, 1529, 1559, 1590, 1620, 1651, 1683, 1714, 1746, 1779, 1812, 1845,
     1878, 1912, 1946, 1981, 2016, 2051, 2086, 2122, 2159, 2195, 2232, 2270,
     2307, 2346, 2384, 2423, 2462, 2502, 2542, 2582, 2623, 2664, 2705, 2747,
     2789, 2831, 2874, 2918, 2961, 3005, 3050, 3095, 3140, 3185, 3231, 3278,
     3325, 3372, 3419, 3467, 3515, 3564, 3613, 3663, 3712, 3763, 3813, 3864,
     3916, 3968, 4020, 4072, 4125, 4179, 4233, 4287, 4342, 4397, 4452, 4508,
     4564, 4621, 4678, 4735, 4793, 4851, 4910, 4969, 5029, 5089, 5149, 5210,
     5271, 5333, 5395, 5457, 5520, 5583, 5647, 5711, 5776, 5841, 5906, 5972,
     6038, 6105, 6172, 6240, 6308, 6376, 6445, 6514, 6584, 6654, 6724, 6795,
     6867, 6939, 7011, 7084, 7157, 7231, 7305, 7379, 7454, 7529, 7605, 7682,
     7758, 7835, 7913, 7991, 8070, 8148, 8228, 8308, 8388, 8469, 8550, 8632,
     8714, 8796, 8879, 8963, 9047, 9131, 9216, 9301, 9387, 9473, 9560, 9647,
     9734, 9823, 9911, 10000
  >>

relativeLuminance(c) ==
  (2126 * linear[c.r + 1] + 7152 * linear[c.g + 1] + 722 * linear[c.b + 1])
    \div 100

Max(a, b) == IF a > b THEN a ELSE b

\* the first luminance over the second, neither sorted
contrastRatio_unsorted(c1, c2) ==
  ((relativeLuminance(c1) + 50000) * 1000) \div (relativeLuminance(c2) + 50000)

contrastRatio(c1, c2) ==
  LET l1 == relativeLuminance(c1)
      l2 == relativeLuminance(c2)
      lighter == Max(l1, l2)
      darker  == Min(l1, l2)
  IN  ((lighter + 50000) * 1000) \div (darker + 50000)

\* a call of contrastRatio
ContrastRatio(c1, c2) ==
  /\ reply = NoReply
  /\ reply' = [op |-> "contrastRatio", c1 |-> c1, c2 |-> c2,
               ratio |-> contrastRatio(c1, c2)]
  /\ UNCHANGED <<build, clock, nextId, monitors, scanHistory, ticks, scanReq,
                 resp, fetch>>
  /\ UNCHANGED scanVars

\* channel values: both ends, both sides of the 0.03928 threshold, the middle
Channels == {0, 10, 11, 128, 255}

Colours == [r : Channels, g : Channels, b : Channels]

InitContrast ==
  /\ build = "part_002"
  /\ ServerInit
  /\ monitors = <<>>
  /\ EvaluatorIdle

NextContrast == \E c1, c2 \in Colours : ContrastRatio(c1, c2)

SpecContrast == InitContrast /\ [][NextContrast]_vars

(***************************************************************************)
(* Check 21 on the elements with a click handler.                          *)
(***************************************************************************)
\* an element with an onclick attribute: its tag, its role attribute, its
\* tabindex attribute ("absent" or the value) and whether one of onkeydown,
\* onkeypress, onkeyup has a non-empty value
Clickable(tag, role, tabindex, keyHandler) ==
  [tag |-> tag, role |-> role, tabindex |-> tabindex, keyHandler |-> keyHandler]

interactiveTags == {"a", "button", "input", "select", "textarea", "summary"}

\* $(el).attr('tabindex') !== undefined
hasTabindex(el) == el.tabindex # "absent"

\* the elements pushed to noKeyboard
noKeyboardOf(clickables) ==
  pick(clickables,
       {k \in DOMAIN clickables :
          /\ clickables[k].tag \notin interactiveTags
          /\ clickables[k].role \notin {"button", "link"}
          /\ (~hasTabindex(clickables[k]) \/ ~clickables[k].keyHandler)})

\* an element with onclick is added to the page
AddClickable(el) ==
  /\ CanEdit
  /\ LET clickables ==
           Append(IF reply = NoReply THEN <<>> ELSE reply.elements, el)
     IN  /\ reply' = [op |-> "clickables", elements |-> clickables]
         /\ html' = [html EXCEPT !.noKeyboard = Len(noKeyboardOf(clickables))]
  /\ edits' = edits + 1
  /\ UNCHANGED <<result, build, clock, nextId, monitors, scanHistory, ticks,
                 scanReq, resp, fetch>>

ClickableElements ==
  {Clickable("div", "", t, k) : t \in {"absent", "-1", "0", "1"}, k \in BOOLEAN}
    \cup {Clickable("button", "", "absent", FALSE),
          Clickable("a", "", "absent", FALSE),
          Clickable("span", "button", "absent", FALSE),
          Clickable("span", "link", "0", FALSE)}

InitKeyboard ==
  /\ build = "part_002"
  /\ ServerInit
  /\ monitors = <<>>
  /\ html = CleanDoc
  /\ edits = 0
  /\ result = NoResult

NextKeyboard ==
  \/ \E el \in ClickableElements : AddClickable(el)
  \/ Scan /\ UNCHANGED <<srvVars, ioVars>>

SpecKeyboard == InitKeyboard /\ [][NextKeyboard]_vars

(***************************************************************************)
(* The scan store at its cap: scan-history.json is read at start-up, so    *)
(* the store may hold the records of an earlier run.                       *)
(***************************************************************************)
persistedHistory(n) ==
  [k \in 1..n |-> [id |-> k - n] @@ scanHTML(CleanDoc, PageUrl)]

CapUrls == {Url(FALSE, "", "a.com"), Url(FALSE, "", "b.com")}

CapPages == {CleanDoc, OneImage}

InitCap ==
  /\ build = "part_002"
  /\ clock = 0
  /\ nextId = 1
  /\ scanHistory \in {persistedHistory(n) :
                        n \in {HISTORY_LIMIT - 1, HISTORY_LIMIT}}
  /\ ticks = [t \in TickIds |-> IdleTick]
  /\ scanReq = [pc |-> "idle", url |-> normalizeUrl(NoUrl)]
  /\ resp = NoResponse
  /\ fetch = IdleFetch
  /\ reply = NoReply
  /\ monitors = <<persistedMonitor(1, "weekly")>>
  /\ EvaluatorIdle

NextCap ==
  \/ \E u \in CapUrls : ScanRequest(u)
  \/ \E page \in CapPages : ScanResolve(page)
  \/ \E msg \in FetchErrors : ScanReject(msg)
  \/ \E u1, u2 \in CapUrls : CompareRequest(u1, u2)
  \/ \E p1, p2 \in CapPages : CompareResolve(p1, p2)
  \/ CompareReject
  \/ \E t \in TickIds : TickStart(t)
  \/ \E t \in TickIds : TickVisit(t)
  \/ \E t \in TickIds : TickEnd(t)
  \/ \E t \in TickIds, page \in CapPages : FetchResolve(t, page)
  \/ \E t \in TickIds : TickUpdate(t)
  \/ \E t \in TickIds : FetchReject(t)
  \/ ResponseSent

SpecCap == InitCap /\ [][NextCap]_vars

(***************************************************************************)
(* Properties                                                              *)
(***************************************************************************)
Scanned == result # NoResult

Rank(level) ==
  CASE level = "compliant" -> 0
    [] level = "needs-improvement" -> 1
    [] level = "partially-compliant" -> 2
    [] level = "non-compliant" -> 3

SeverityCount(issues, impact) ==
  Cardinality({k \in DOMAIN issues : issues[k].impact = impact})

\* C1: the compliance level of a scan is non-compliant with at least one
\* critical issue, else partially-compliant with at least two serious ones,
\* else needs-improvement with at least one issue, else compliant: a function
\* of the numbers of issues per severity alone.
C1_ComplianceLevel ==
  Scanned =>
    LET critical == SeverityCount(result.issues, "critical")
        serious  == SeverityCount(result.issues, "serious")
    IN  result.complianceLevel =
          (IF critical >= 1 THEN "non-compliant"
           ELSE IF serious >= 2 THEN "partially-compliant"
           ELSE IF Len(result.issues) >= 1 THEN "needs-improvement"
           ELSE "compliant")

\* exactly one serious issue and no critical one: needs-improvement
C1_Witness ==
  /\ Scanned
  /\ SeverityCount(result.issues, "critical") = 0
  /\ SeverityCount(result.issues, "serious") = 1
  /\ result.complianceLevel = "needs-improvement"

\* C2: the score is an integer of 0..100, the pass rate in percent rounded to
\* the nearest integer (halves up) over passes + issues, warnings not counted;
\* it is 0 when there is neither a pass nor an issue.
C2_Score ==
  Scanned =>
    LET p == Len(result.passes)
        t == Len(result.passes) + Len(result.issues)
    IN  /\ result.score \in 0..100
        /\ IF t > 0
           THEN /\ 2 * (result.score * t - 100 * p) <= t
                /\ 2 * (100 * p - result.score * t) < t
           ELSE result.score = 0

\* a scan with a warning whose pass rate is not a whole percentage
C2_Witness ==
  /\ Scanned
  /\ Len(result.warnings) > 0
  /\ (100 * Len(result.passes)) % (Len(result.passes) + Len(result.issues)) # 0

CriticalRules == {r \in DOMAIN WCAG_RULES : WCAG_RULES[r] = "critical"}

\* C3: one more critical issue added to the issues of a scan never gives a
\* level below the level of the scan.
C3_Monotonic ==
  Scanned =>
    \A r \in CriticalRules :
       Rank(complianceLevel(Append(result.issues, addIssue(r, <<1>>))))
         >= Rank(result.complianceLevel)

\* a scan that already has one critical issue
C3_Witness ==
  /\ Scanned
  /\ SeverityCount(result.issues, "critical") = 1
  /\ result.complianceLevel = "non-compliant"

ReportedIds(r) ==
  [k \in 1..(Len(r.issues) + Len(r.passes)) |->
     IF k <= Len(r.issues) THEN r.issues[k].id
     ELSE r.passes[k - Len(r.issues)].id]

\* C4: a rule identifier occurs at most once in the issues and passes of a
\* scan taken together.
C4_RuleOnce ==
  Scanned =>
    \A a, b \in DOMAIN ReportedIds(result) :
       a # b => ReportedIds(result)[a] # ReportedIds(result)[b]

\* a scan that reports the heading-skip rule as an issue
C4_Witness ==
  /\ Scanned
  /\ \E k \in DOMAIN result.issues : result.issues[k].id = "skipped-heading"
  /\ Len(html.headings) > 1

\* C5: the monitor list holds at most one record per (url, contact) pair.
C5_OneRecordPerPair ==
  \A k, l \in DOMAIN monitors :
     (monitors[k].url = monitors[l].url /\ monitors[k].email = monitors[l].email)
       => k = l

\* C6: a monitor that is inactive becomes active only in a step that answers
\* a registration of that monitor.
C6_NoReactivation ==
  [][\A k \in DOMAIN monitors :
       (~monitors[k].active /\ monitors'[k].active)
         => resp' = Respond("monitor", monitors[k].id, 200)]_vars

KnownId(id) == \E k \in DOMAIN monitors : monitors[k].id = id

\* C7: no step removes a monitor record; a deactivation of a known id answers
\* 200 and changes the list in that record's active flag alone, which is then
\* false; a deactivation of an unknown id answers 404 and leaves the list as
\* it is.
C7_Deactivate ==
  [][/\ Len(monitors') >= Len(monitors)
     /\ \A k \in DOMAIN monitors : monitors'[k].id = monitors[k].id
     /\ (resp'.op = "deactivate" /\ resp.op = "none") =>
          IF KnownId(resp'.arg)
          THEN /\ resp'.status = 200
               /\ DOMAIN monitors' = DOMAIN monitors
               /\ \A k \in DOMAIN monitors :
                    IF monitors[k].id = resp'.arg
                    THEN monitors'[k] = [monitors[k] EXCEPT !.active = FALSE]
                    ELSE monitors'[k] = monitors[k]
          ELSE /\ resp'.status = 404
               /\ monitors' = monitors]_vars

\* an active monitor has just been deactivated
C7_Witness ==
  /\ resp.op = "deactivate" /\ resp.status = 200
  /\ \E k \in DOMAIN monitors : monitors[k].id = resp.arg /\ ~monitors[k].active
  /\ \E k \in DOMAIN monitors : monitors[k].active

Last(seq) == seq[Len(seq)]

\* C8: a tick fetches the monitor it visits exactly when that monitor is
\* active and its nextScanAt is not after the tick's time, it visits the
\* monitors one by one and ends only past the last one; a successful scan
\* appends its record first, and the step after it sets the monitor's
\* lastScanAt to the tick's time, its lastScore to that record's score and
\* its nextScanAt; nothing else changes those three fields.
C8_Tick ==
  [][/\ \A t \in TickIds :
          LET tk == ticks[t]
              tn == ticks'[t]
          IN  /\ (tk.pc = "loop" /\ tn # tk /\ tk.i <= Len(monitors)) =>
                   LET m == monitors[tk.i]
                   IN  IF m.active /\ m.nextScanAt <= tk.now
                       THEN tn.pc = "fetch" /\ tn.i = tk.i
                       ELSE tn.pc = "loop" /\ tn.i = tk.i + 1
              /\ (tk.pc # "idle" /\ tn.pc = "idle") =>
                   tk.pc = "loop" /\ tk.i > Len(monitors)
              /\ (tk.pc = "fetch" /\ tn.pc = "update") =>
                   /\ Len(scanHistory') = Len(scanHistory) + 1
                   /\ Last(scanHistory').url = monitors[tk.i].url
                   /\ Last(scanHistory').score = tn.score
                   /\ monitors' = monitors
              /\ (tk.pc = "update" /\ tn # tk) =>
                   /\ scanHistory' = scanHistory
                   /\ monitors'[tk.i].lastScanAt = tk.now
                   /\ monitors'[tk.i].lastScore = Last(scanHistory).score
                   /\ monitors'[tk.i].nextScanAt > tk.now
                   /\ tn.pc = "loop" /\ tn.i = tk.i + 1
     /\ \A k \in DOMAIN monitors :
          (\/ monitors'[k].lastScanAt # monitors[k].lastScanAt
           \/ monitors'[k].lastScore # monitors[k].lastScore
           \/ monitors'[k].nextScanAt # monitors[k].nextScanAt)
            => \E u \in TickIds : ticks[u].pc = "update" /\ ticks[u].i = k]_vars

Outcome(t, k) ==
  IF k <= Len(ticks[t].outcomes) THEN ticks[t].outcomes[k] ELSE "none"

\* a tick has skipped one monitor and scanned another
C8_Witness ==
  \E t \in TickIds, j, k \in DOMAIN monitors :
     /\ Outcome(t, j) = "skip"
     /\ Outcome(t, k) = "ok"
     /\ monitors[k].lastScanAt = ticks[t].now
     /\ monitors[k].lastScore = 100

Duration(frequency) ==
  CASE frequency = "daily" -> 1
    [] frequency = "weekly" -> 7
    [] frequency = "monthly" -> 30

\* C9: the step that records a successful scheduled scan of a daily, weekly
\* or monthly monitor sets its nextScanAt to the tick's time plus 1, 7 or 30
\* days.
C9_NextDue ==
  [][\A t \in TickIds :
       (ticks[t].pc = "update" /\ ticks'[t] # ticks[t]) =>
          LET k == ticks[t].i
          IN  monitors[k].frequency \in {"daily", "weekly", "monthly"} =>
                monitors'[k].nextScanAt =
                  ticks[t].now + Duration(monitors[k].frequency)]_vars

Failed(t) == \E k \in DOMAIN ticks[t].outcomes : ticks[t].outcomes[k] = "fail"

\* C10: when the scan of a monitor fails, the tick goes on with the next
\* monitor and changes neither list; after a failure the tick still fetches
\* every monitor it visits that is active and due, it ends only past the
\* last monitor, and it does end.
C10_IsolatedFailure ==
  /\ [][\A t \in TickIds :
          LET tk == ticks[t]
              tn == ticks'[t]
          IN  /\ (tk.pc = "fetch" /\ tn # tk /\ tn.pc # "update") =>
                   /\ tn.pc = "loop"
                   /\ tn.i = tk.i + 1 /\ tn.now = tk.now
                   /\ monitors' = monitors /\ scanHistory' = scanHistory
              /\ (Failed(t) /\ tk.pc = "loop" /\ tn # tk) =>
                   IF tk.i <= Len(monitors)
                   THEN LET m == monitors[tk.i]
                        IN  IF m.active /\ m.nextScanAt <= tk.now
                            THEN tn.pc = "fetch" /\ tn.i = tk.i
                            ELSE tn.pc = "loop" /\ tn.i = tk.i + 1
                   ELSE tn.pc = "idle"]_vars
  /\ \A t \in TickIds : Failed(t) ~> (ticks[t].pc = "idle")

\* a tick has scanned a monitor after the scan of an earlier one failed
C10_Witness ==
  \E t \in TickIds, j, k \in DOMAIN monitors :
     /\ j < k
     /\ Outcome(t, j) = "fail"
     /\ Outcome(t, k) = "ok"
     /\ monitors[k].lastScanAt = ticks[t].now

\* C11: at most one invocation of runScheduledScans awaits a fetch at any
\* moment.
C11_OneInFlight ==
  Cardinality({t \in TickIds : ticks[t].pc = "fetch"}) <= 1

Pending == fetch.outcome = "pending"

\* C12: a redirect response is followed while it is at most the fifth of the
\* call and is never refused as one too many; the sixth rejects the call
\* with "Too many redirects" and no request is issued for it, so a call
\* issues at most six requests and one that resolves saw at most five
\* redirects.
C12_RedirectCap ==
  /\ [](/\ fetch.requests <= 6
        /\ fetch.outcome = "resolved" => fetch.redirects <= 5)
  /\ [][fetch'.redirects = fetch.redirects + 1 =>
          IF fetch'.redirects <= 5
          THEN /\ fetch'.error # "Too many redirects"
               /\ fetch'.pc = "request" =>
                    /\ fetch'.requests = fetch.requests + 1
                    /\ fetch'.outcome = fetch.outcome
          ELSE /\ fetch'.requests = fetch.requests
               /\ fetch'.pc = "closed"
               /\ fetch'.outcome = "rejected"
               /\ Pending => fetch'.error = "Too many redirects"]_vars

\* five redirects, then a 200 response whose body was returned
C12_Witness ==
  /\ fetch.outcome = "resolved"
  /\ fetch.redirects = 5
  /\ fetch.requests = 6
  /\ fetch.body = fetch.size

\* C13: a call that has started and is not settled has its timer set; the
\* timer firing on a pending call destroys the request and rejects with a
\* timed-out error; once settled, the outcome, error and body never change;
\* and every call that has started settles.
C13_Settles ==
  /\ []((fetch.pc # "idle" /\ Pending) => fetch.timer)
  /\ [][/\ (fetch'.event = "timeout" /\ fetch' # fetch /\ Pending) =>
             /\ fetch'.destroyed
             /\ fetch'.outcome = "rejected"
             /\ fetch'.error = "Request timed out"
        /\ ~Pending =>
             /\ fetch'.outcome = fetch.outcome
             /\ fetch'.error = fetch.error
             /\ fetch'.body = fetch.body]_vars
  /\ (fetch.pc # "idle") ~> ~Pending

\* the timer fired while the body of a redirected request was arriving
C13_Witness ==
  /\ fetch.event = "timeout"
  /\ fetch.pc = "body" /\ fetch.size > 0 /\ fetch.redirects > 0
  /\ fetch.destroyed
  /\ fetch.outcome = "rejected"
  /\ fetch.error = "Request timed out"

\* C14: a data event that takes the accumulated length above 5 * 1024 * 1024
\* destroys the request and rejects a pending call as too large; one that
\* does not leaves the call as it was; the end event resolves a pending call
\* with everything accumulated, which is at most the ceiling.
C14_BodyCeiling ==
  /\ [](fetch.outcome = "resolved" =>
          fetch.body = fetch.size /\ fetch.body <= 5242880)
  /\ [][/\ fetch'.chunks = fetch.chunks + 1 =>
             IF fetch'.size > 5242880
             THEN /\ fetch'.destroyed
                  /\ fetch'.outcome = "rejected"
                  /\ Pending => fetch'.error = "Response too large (>5MB)"
             ELSE /\ ~fetch'.destroyed
                  /\ fetch'.outcome = fetch.outcome
        /\ (fetch'.event = "end" /\ fetch' # fetch /\ Pending) =>
             /\ fetch'.outcome = "resolved"
             /\ fetch'.body = fetch.size]_vars

\* a body of exactly the ceiling, returned in full
C14_Witness ==
  /\ fetch.outcome = "resolved"
  /\ fetch.body = 5242880
  /\ fetch.chunks = 2

\* C15: the store never holds more than 1000 records, and they are the
\* latest appended, in the order they were appended: with records numbered
\* as they are pushed, the store holds consecutive numbers up to the last
\* one pushed; a step only drops records from the front and adds at the
\* end, every record that stays being unchanged.
C15_StoreCap ==
  /\ [](/\ Len(scanHistory) <= 1000
        /\ \A k \in DOMAIN scanHistory :
             scanHistory[k].id = nextId - 1 - Len(scanHistory) + k)
  /\ [][LET added   == nextId' - nextId
            kept    == Len(scanHistory') - added
            evicted == Len(scanHistory) - kept
        IN  /\ evicted >= 0
            /\ evicted > 0 => Len(scanHistory') = 1000
            /\ \A k \in 1..kept : scanHistory'[k] = scanHistory[k + evicted]]_vars

\* a full store has taken two more records and dropped its two oldest
C15_Witness ==
  /\ Len(scanHistory) = 1000
  /\ nextId = 3
  /\ scanHistory[1].id = -997
  /\ scanHistory[1000].id = 2

RecordsContaining(filter) ==
  pick(scanHistory, {k \in DOMAIN scanHistory :
                       includes(urlString(scanHistory[k].url), filter)})

\* C16: the history answer for a limit >= 0 holds the min(limit, n) latest
\* of the n records whose url contains the filter, latest first.
C16_History ==
  (reply.op = "history" /\ reply.limit # none) =>
    LET matching == RecordsContaining(reply.url)
        n == Len(matching)
        k == Min(reply.limit, n)
    IN  /\ Len(reply.body) = k
        /\ \A j \in 1..k : reply.body[j] = matching[n + 1 - j]

OfHost(url) ==
  pick(scanHistory, {k \in DOMAIN scanHistory :
                       hostname(scanHistory[k].url) = hostname(normalizeUrl(url))})

\* C17: the trend answer lists the records of the hostname in insertion
\* order; with fewer than two the trend is null, else scoreChange and
\* issuesChange are latest minus earliest and direction is the sign of
\* scoreChange.
C17_Trend ==
  (reply.op = "trend" /\ reply.status = 200) =>
    LET own == OfHost(reply.url)
        n   == Len(own)
    IN  /\ Len(reply.scans) = n
        /\ \A k \in 1..n : reply.scans[k].id = own[k].id
        /\ n < 2 => reply.trend = NoTrend
        /\ n >= 2 =>
             LET change == own[n].score - own[1].score
             IN  /\ reply.trend.scoreChange = change
                 /\ reply.trend.issuesChange =
                      Len(own[n].issues) - Len(own[1].issues)
                 /\ reply.trend.direction =
                      (IF change > 0 THEN "improving"
                       ELSE IF change < 0 THEN "declining" ELSE "stable")

\* two records of the hostname with the same score: stable
C17_Witness ==
  /\ reply.op = "trend" /\ reply.status = 200
  /\ Len(reply.scans) = 2
  /\ Len(scanHistory) = 2
  /\ scanHistory[1].issues # scanHistory[2].issues
  /\ reply.trend.direction = "stable"

IssueRuleIds(record) == {record.issues[k].id : k \in DOMAIN record.issues}

Range(seq) == {seq[k] : k \in DOMAIN seq}

\* C18: in the diff answer, for each record of the hostname after the first,
\* issuesFixed lists once each the rule ids that are issues of the previous
\* record and not of this one, newIssues those of this one and not of the
\* previous; the two are disjoint and both empty when the two id sets are
\* equal.
C18_Diff ==
  (reply.op = "diff" /\ reply.status = 200) =>
    LET own == OfHost(reply.url)
    IN  /\ Len(reply.history) = Len(own)
        /\ \A i \in 2..Len(own) :
             LET P == IssueRuleIds(own[i - 1])
                 C == IssueRuleIds(own[i])
                 d == reply.history[i].diff
             IN  /\ Range(d.issuesFixed) = P \ C
                 /\ Range(d.newIssues) = C \ P
                 /\ d.issuesFixedCount = Cardinality(P \ C)
                 /\ d.newIssuesCount = Cardinality(C \ P)
                 /\ Len(d.issuesFixed) = d.issuesFixedCount
                 /\ Len(d.newIssues) = d.newIssuesCount
                 /\ Range(d.issuesFixed) \cap Range(d.newIssues) = {}
                 /\ P = C => d.issuesFixedCount = 0 /\ d.newIssuesCount = 0

\* two records with the same issue, found once and then twice
C18_Witness ==
  /\ reply.op = "diff" /\ reply.status = 200
  /\ Len(reply.history) = 2
  /\ Len(scanHistory) = 2
  /\ Len(scanHistory[1].issues) = 1
  /\ IssueRuleIds(scanHistory[1]) = IssueRuleIds(scanHistory[2])
  /\ scanHistory[1].issues[1].count # scanHistory[2].issues[1].count
  /\ reply.latestDiff.issuesFixedCount = 0
  /\ reply.latestDiff.newIssuesCount = 0

\* C19: a scan answered 200 has added one record, the one it answers with,
\* behind the records that were there; a scan answered with an error and
\* every read leave the store as it is, and only a URL that parses is
\* fetched; no step changes a record that is in the store.
C19_ScanAppends ==
  [][/\ \A k \in DOMAIN scanHistory :
          k \in DOMAIN scanHistory' /\ scanHistory'[k] = scanHistory[k]
     /\ (resp'.op = "scan" /\ resp.op = "none") =>
          IF resp'.status = 200
          THEN /\ Len(scanHistory') = Len(scanHistory) + 1
               /\ Last(scanHistory').id = resp'.arg
               /\ Last(scanHistory').url = scanReq.url
          ELSE /\ scanHistory' = scanHistory
               /\ scanReq'.pc = "idle"
     /\ (scanReq.pc = "idle" /\ scanReq'.pc = "fetch")
          => urlParses(scanReq'.url)
     /\ (resp'.op \in {"history", "get", "trend", "diff"} /\ resp.op = "none")
          => scanHistory' = scanHistory]_vars

\* a second scan has succeeded
C19_Witness ==
  /\ resp.op = "scan" /\ resp.status = 200
  /\ Len(scanHistory) = 2
  /\ scanHistory[2].id = resp.arg
  /\ scanHistory[1].id # resp.arg

\* a colour of the named table, a hex colour of 3, 6 or 8 digits, or an
\* rgb( / rgba( expression with three numbers
IsColour(expr) ==
  \/ expr.form = "word" /\ expr.text \in DOMAIN namedColors \ {"transparent"}
  \/ expr.form = "hex" /\ Len(expr.digits) \in {3, 6, 8}
  \/ expr.form = "rgb" /\ Len(expr.args) >= 3

\* C20: parseColor answers null, and does not throw, for every expression
\* that is no colour and for transparent; a scan of a page whose inline
\* style holds such an expression is not answered with an error.
C20_NullNeverThrows ==
  /\ (reply.op = "parseColor" /\ ~IsColour(reply.expr))
       => reply.value = nullColor
  /\ (reply.op = "contrast" /\ (~IsColour(reply.fg) \/ ~IsColour(reply.bg)))
       => (reply.outcome = "skipped" /\ resp.status = 200)

\* C21: the ratio of two colours is the same in either order, the ratio of
\* a colour with itself is 1, and no ratio is below 1.
C21_ContrastRatio ==
  reply.op = "contrastRatio" =>
    /\ reply.ratio = contrastRatio(reply.c2, reply.c1)
    /\ reply.c1 = reply.c2 => reply.ratio = 1000
    /\ reply.ratio >= 1000

\* black on white: the darker colour given first, ratio 21
C21_Witness ==
  /\ reply.op = "contrastRatio"
  /\ reply.c1 = [r |-> 0, g |-> 0, b |-> 0]
  /\ reply.c2 = [r |-> 255, g |-> 255, b |-> 255]
  /\ reply.ratio = 21000

\* the adjacent heading pairs whose second level is more than one above the
\* first
SkipPairs(h) == {i \in 2..Len(h) : h[i] - h[i - 1] > 1}

\* the number of violations of a rule in a document: the violating elements
\* of a rule about elements, one for a rule about the page as a whole
Violations(d, ruleId) ==
  CASE ruleId = "missing-alt" -> d.imgsNoAlt
    [] ruleId = "missing-lang" -> IF d.lang THEN 0 ELSE 1
    [] ruleId = "missing-title" -> IF d.title THEN 0 ELSE 1
    [] ruleId = "missing-heading" -> IF d.headings = <<>> THEN 1 ELSE 0
    [] ruleId = "skipped-heading" -> Cardinality(SkipPairs(d.headings))
    [] ruleId = "missing-form-label" -> d.unlabeled
    [] ruleId = "empty-link" -> d.emptyLinks
    [] ruleId = "empty-button" -> d.emptyBtns
    [] ruleId = "missing-viewport" -> IF d.viewport THEN 0 ELSE 1
    [] ruleId = "missing-landmark" ->
         IF d.landmarkTags = {} /\ d.roleNavigation = 0 THEN 1 ELSE 0
    [] ruleId = "autoplay-media" -> d.autoplayMedia
    [] ruleId = "tabindex-positive" -> d.posTab
    [] ruleId = "missing-table-header" -> d.tablesNoHeader
    [] ruleId = "meta-refresh" -> d.metaRefresh
    [] ruleId = "color-contrast-inline" -> d.contrastIssues
    [] ruleId = "keyboard-trap" -> d.trapElements
    [] ruleId = "missing-focus-style" -> d.focusSuppressed
    [] ruleId = "generic-link-text" -> d.genericLinks
    [] ruleId = "missing-keyboard-access" -> d.noKeyboard

\* the violating elements of a rule in document order: a skipped heading is
\* named by its position among the headings, another element by its rank
ViolatingElements(d, ruleId) ==
  IF ruleId = "skipped-heading"
  THEN pick([i \in 1..Len(d.headings) |-> i], SkipPairs(d.headings))
  ELSE Excerpts(Violations(d, ruleId))

\* C22: every issue of a scan has a count of at least 1 that is the number
\* of violating elements the document holds for its rule, and lists the
\* first min(count, 5) of them in document order.
C22_IssueCount ==
  Scanned =>
    \A k \in DOMAIN result.issues :
       LET issue == result.issues[k]
       IN  /\ issue.count >= 1
           /\ issue.count = Violations(html, issue.id)
           /\ issue.elements =
                SubSeq(ViolatingElements(html, issue.id), 1, Min(issue.count, 5))

IssuesOf(ruleId) ==
  {k \in DOMAIN result.issues : result.issues[k].id = ruleId}

PassesOf(ruleId) ==
  {k \in DOMAIN result.passes : result.passes[k].id = ruleId}

\* C23: the heading-skip rule gives an issue exactly when some heading is
\* more than one level below the heading before it, its count the number
\* of such pairs; a pass exactly when there are headings and no such pair;
\* neither when there is no heading.
C23_HeadingSkip ==
  Scanned =>
    LET pairs  == SkipPairs(html.headings)
        issues == IssuesOf("skipped-heading")
        passes == PassesOf("skipped-heading")
    IN  /\ (issues # {}) <=> (pairs # {})
        /\ \A k \in issues : result.issues[k].count = Cardinality(pairs)
        /\ (passes # {}) <=> (html.headings # <<>> /\ pairs = {})
        /\ html.headings = <<>> => (issues = {} /\ passes = {})
        /\ Cardinality(issues) + Cardinality(passes) <= 1

\* h1, h3, h4, h6 scanned: two skips, with a step of one between them
C23_Witness ==
  /\ Scanned
  /\ html.headings = <<1, 3, 4, 6>>
  /\ \E k \in IssuesOf("skipped-heading") : result.issues[k].count = 2

\* the elements of the page that have a click handler
Clickables == IF reply = NoReply THEN <<>> ELSE reply.elements

\* C24: an element with a click handler that is no natively interactive tag
\* and has no role button or link is a violation exactly when it lacks a
\* positive tabindex together with a key handler; the keyboard-access rule
\* gives an issue, counting the violations, when there is one and a pass
\* when there is none.
C24_KeyboardAccess ==
  (Scanned /\ reply.op \in {"none", "clickables"}) =>
    LET violating ==
          {k \in DOMAIN Clickables :
             /\ Clickables[k].tag \notin
                  {"a", "button", "input", "select", "textarea", "summary"}
             /\ Clickables[k].role \notin {"button", "link"}
             /\ ~(Clickables[k].tabindex = "1" /\ Clickables[k].keyHandler)}
        issues == IssuesOf("missing-keyboard-access")
        passes == PassesOf("missing-keyboard-access")
    IN  /\ (issues # {}) <=> (violating # {})
        /\ \A k \in issues : result.issues[k].count = Cardinality(violating)
        /\ (passes # {}) <=> (violating = {})

\* C25: a redirect whose Location parses as a URL, of either scheme, and
\* that is at most the fifth of a pending call is followed by a new
\* request and is not refused as an invalid redirect.
C25_AnyScheme ==
  [][(/\ Pending
      /\ fetch'.event = "redirect"
      /\ fetch'.redirects = fetch.redirects + 1
      /\ fetch'.redirects <= 5
      /\ fetch'.location \in {"ok", "scheme"})
     => /\ fetch'.pc = "request"
        /\ fetch'.requests = fetch.requests + 1
        /\ fetch'.error # "Invalid redirect URL"]_vars

C27_FrequencyDomain ==
  \A k \in DOMAIN monitors :
     monitors[k].frequency \in {"daily", "weekly", "monthly"}

\* C28: the scheduler records a scan, and writes lastScanAt, lastScore and
\* nextScanAt of a monitor, only for a monitor that is active when the
\* record is pushed or the fields are written.
C28_ActiveAtWrite ==
  [][\A t \in TickIds :
       LET k == ticks[t].i
       IN  /\ (ticks[t].pc = "fetch" /\ ticks'[t].pc = "update")
                => monitors[k].active
           /\ (ticks[t].pc = "update" /\ ticks'[t] # ticks[t])
                => monitors[k].active]_vars

\* C29: a registration that finds the (url, contact) pair leaves the id, the
\* url, the contact, createdAt, lastScanAt, lastScore and nextScanAt of the
\* record as they were, whatever the frequency passed, sets active, and
\* changes no other monitor.
C29_ReRegisterFrame ==
  [][(/\ resp = NoResponse
      /\ resp'.op = "monitor"
      /\ resp'.status = 200
      /\ Len(monitors') = Len(monitors))
       => \E k \in 1..Len(monitors) :
            /\ monitors[k].id = resp'.arg
            /\ \A j \in 1..Len(monitors) :
                 j # k => monitors'[j] = monitors[j]
            /\ \A f \in {"id", "url", "email", "createdAt",
                         "lastScanAt", "lastScore", "nextScanAt"} :
                 monitors'[k][f] = monitors[k][f]
            /\ monitors'[k].active]_vars

\* a scanned weekly monitor registered again as a daily one: its next scan
\* is still a week after the last
C29_Witness ==
  /\ resp.op = "monitor"
  /\ resp.status = 200
  /\ \E k \in 1..Len(monitors) :
       /\ monitors[k].id = resp.arg
       /\ monitors[k].frequency = "daily"
       /\ monitors[k].lastScanAt = 0
       /\ monitors[k].lastScore # none
       /\ monitors[k].nextScanAt = WEEK

\* C30: in every scan result totalChecks = passed + issues, which are the
\* numbers of passes and of issues; critical + serious + moderate + minor =
\* issues; totalChecks lies in 17..20, so the score is the rounded pass rate
\* and never the 0 of an empty scan; a scan without issues scores 100 and is
\* compliant.
C30_SummaryTotals ==
  Scanned =>
    LET s == result.summary
    IN  /\ s.totalChecks = s.passed + s.issues
        /\ s.passed = Len(result.passes)
        /\ s.issues = Len(result.issues)
        /\ s.critical + s.serious + s.moderate + s.minor = s.issues
        /\ s.totalChecks \in 17..20
        /\ result.score = RoundPercent(s.passed, s.totalChecks)
        /\ (s.issues = 0 =>
              result.score = 100 /\ result.complianceLevel = "compliant")

\* a page with headings, a skip link and a data table and no issue at all:
\* all twenty rules are settled
C30_Witness ==
  /\ Scanned
  /\ result.summary.totalChecks = 20
  /\ result.summary.issues = 0
  /\ result.score = 100

====
